---- MODULE Spec2Model ----
(***************************************************************************)
(* FoodWasteConnector: the donations ledger (table, trigger and row-level  *)
(* policies of supabase/migrations), the client operations that write to   *)
(* it (DonateSurplus.handleSubmit, IncomingRequests.acceptDonation,        *)
(* MyPickups.completeDonation, and a plain UPDATE sent through the API by  *)
(* an authenticated actor), the change feed and the NotificationSystem,     *)
(* the profiles table with AuthContext.updateProfile, the Donate form with *)
(* its LocationPicker, and the Dashboard's read of the ledger.             *)
(***************************************************************************)
EXTENDS Integers, Sequences, FiniteSets, TLC

\* ---------------------------------------------------------------- bounds
MaxDonations == 1
MaxWrites == 3
MaxQueue == 1

\* ------------------------------------------------------------ identities
Donors == {"D1"}
Shelters == {"S1", "S2"}
Volunteers == {"V1", "V2"}
Actors == Donors \cup Shelters \cup Volunteers
\* the actors that also write to the table without the pages (one per role
\* that passes an UPDATE policy, and the donor)
DirectWriters == {"D1", "S2", "V2"}

\* SQL NULL in a uuid column, and in a timestamptz column
Null == "null"
NullTime == "null"
\* the value of now(): the model keeps of a timestamp only whether it is set
Now == "now"

\* profiles.user_type CHECK constraint
UserTypes == {"donor", "shelter", "volunteer"}

\* the user_type each identity signed up with
SignedUpAs(a) ==
  IF a \in Donors THEN "donor" ELSE IF a \in Shelters THEN "shelter" ELSE "volunteer"

\* donations.status CHECK constraint
Statuses == {"pending", "accepted", "completed", "cancelled"}

VARIABLES
  donations,      \* the donations table: a sequence of rows, id = index
  seq,            \* number of committed writes (the ledger's write sequence)
  inflight,       \* per actor: the UPDATE request issued by the page, not yet answered
  alert,          \* the alert() the step just taken shows, and to whom; NoAlert if it shows none
  feed,           \* change events not yet handed to their subscriber's callback
  notifications,  \* per subscriber: NotificationSystem's notifications state
  clock,          \* per subscriber: its clock, kept as the number of notifications it has stamped
  profiles,       \* the profiles table: per identity the row with that id
  profile,        \* per identity: AuthContext's profile state, the copy its pages and routes use
  formData,       \* DonateSurplus: the form's state
  coordinates,    \* DonateSurplus: the coordinates state
  address,        \* LocationPicker: the address state (the text in its input)
  suggestions,    \* LocationPicker: the suggestions state
  showSuggestions, \* LocationPicker: the showSuggestions state
  submittedDonation, \* DonateSurplus: the row the last INSERT ... RETURNING gave back
  dashboard,      \* Dashboard: who ran fetchDashboardData last, and what its queries returned
  lists,          \* per identity: its list page (IncomingRequests or MyPickups) while it is followed
  auth,           \* AuthProvider of one browser: the user, profile and loading states
  calls,          \* AuthProvider: its asynchronous work in flight
  session,        \* the session the supabase client of that browser holds
  response,       \* what the direct API call just sent was answered with
  location        \* the path the browser of the followed AuthProvider shows

\* the profiles and their copies in the clients
authVars == <<profiles, profile>>
\* the Donate page with its LocationPicker
formVars == <<formData, coordinates, address, suggestions, showSuggestions, submittedDonation>>
\* what the actions of the ledger leave alone
\* the AuthProvider of the browser that is followed through its sessions,
\* and the answers to direct API calls
viewVars == <<auth, calls, session, response, location>>
otherVars == <<clock, authVars, formVars, dashboard, viewVars>>

vars == <<donations, seq, inflight, alert, feed, notifications, clock, profiles,
          profile, formData, coordinates, address, suggestions, showSuggestions,
          submittedDonation, dashboard, lists, auth, calls, session, response,
          location>>

\* profiles.user_type of the row with id a
user_type(a) == profiles[a].user_type

\* ---------------------------------------------------------------- strings

\* the characters of a text, for the texts whose characters the code looks at
\* (the addresses and the city names, the food types and the keywords of the
\* classifier)
Chars(s) ==
  CASE s = "" -> << >>
    [] s = "78" ->
         <<"7", "8">>
    [] s = "789 pine" ->
         <<"7", "8", "9", " ", "p", "i", "n", "e">>
    [] s = "5 Elm Court" ->
         <<"5", " ", "E", "l", "m", " ", "C", "o", "u", "r", "t">>
    [] s = "123 Main Street, New York, NY 10001" ->
         <<"1", "2", "3", " ", "M", "a", "i", "n", " ", "S", "t", "r", "e", "e", "t", ",", " ", "N", "e", "w", " ", "Y", "o", "r", "k", ",", " ", "N", "Y", " ", "1", "0", "0", "0", "1">>
    [] s = "789 Pine Road, Chicago, IL 60601" ->
         <<"7", "8", "9", " ", "P", "i", "n", "e", " ", "R", "o", "a", "d", ",", " ", "C", "h", "i", "c", "a", "g", "o", ",", " ", "I", "L", " ", "6", "0", "6", "0", "1">>
    [] s = "New York" ->
         <<"N", "e", "w", " ", "Y", "o", "r", "k">>
    [] s = "Los Angeles" ->
         <<"L", "o", "s", " ", "A", "n", "g", "e", "l", "e", "s">>
    [] s = "Chicago" ->
         <<"C", "h", "i", "c", "a", "g", "o">>
    [] s = "Houston" ->
         <<"H", "o", "u", "s", "t", "o", "n">>
    [] s = "Phoenix" ->
         <<"P", "h", "o", "e", "n", "i", "x">>
    [] s = "Prepared Meals" ->
         <<"P", "r", "e", "p", "a", "r", "e", "d", " ", "M", "e", "a", "l", "s">>
    [] s = "Bakery Items" ->
         <<"B", "a", "k", "e", "r", "y", " ", "I", "t", "e", "m", "s">>
    [] s = "Dairy Products" ->
         <<"D", "a", "i", "r", "y", " ", "P", "r", "o", "d", "u", "c", "t", "s">>
    [] s = "Fresh Produce" ->
         <<"F", "r", "e", "s", "h", " ", "P", "r", "o", "d", "u", "c", "e">>
    [] s = "Packaged Foods" ->
         <<"P", "a", "c", "k", "a", "g", "e", "d", " ", "F", "o", "o", "d", "s">>
    [] s = "Beverages" ->
         <<"B", "e", "v", "e", "r", "a", "g", "e", "s">>
    [] s = "Canned Goods" ->
         <<"C", "a", "n", "n", "e", "d", " ", "G", "o", "o", "d", "s">>
    [] s = "Frozen Items" ->
         <<"F", "r", "o", "z", "e", "n", " ", "I", "t", "e", "m", "s">>
    [] s = "Other Food Items" ->
         <<"O", "t", "h", "e", "r", " ", "F", "o", "o", "d", " ", "I", "t", "e", "m", "s">>
    [] s = "sandwich" ->
         <<"s", "a", "n", "d", "w", "i", "c", "h">>
    [] s = "burger" ->
         <<"b", "u", "r", "g", "e", "r">>
    [] s = "pizza" ->
         <<"p", "i", "z", "z", "a">>
    [] s = "soup" ->
         <<"s", "o", "u", "p">>
    [] s = "meal" ->
         <<"m", "e", "a", "l">>
    [] s = "cooked" ->
         <<"c", "o", "o", "k", "e", "d">>
    [] s = "bread" ->
         <<"b", "r", "e", "a", "d">>
    [] s = "cake" ->
         <<"c", "a", "k", "e">>
    [] s = "pastry" ->
         <<"p", "a", "s", "t", "r", "y">>
    [] s = "donut" ->
         <<"d", "o", "n", "u", "t">>
    [] s = "muffin" ->
         <<"m", "u", "f", "f", "i", "n">>
    [] s = "milk" ->
         <<"m", "i", "l", "k">>
    [] s = "cheese" ->
         <<"c", "h", "e", "e", "s", "e">>
    [] s = "yogurt" ->
         <<"y", "o", "g", "u", "r", "t">>
    [] s = "dairy" ->
         <<"d", "a", "i", "r", "y">>
    [] s = "apple" ->
         <<"a", "p", "p", "l", "e">>
    [] s = "banana" ->
         <<"b", "a", "n", "a", "n", "a">>
    [] s = "vegetable" ->
         <<"v", "e", "g", "e", "t", "a", "b", "l", "e">>
    [] s = "fruit" ->
         <<"f", "r", "u", "i", "t">>
    [] s = "produce" ->
         <<"p", "r", "o", "d", "u", "c", "e">>
    [] s = "can" ->
         <<"c", "a", "n">>
    [] s = "jar" ->
         <<"j", "a", "r">>
    [] s = "bottle" ->
         <<"b", "o", "t", "t", "l", "e">>
    [] s = "packaged" ->
         <<"p", "a", "c", "k", "a", "g", "e", "d">>
    [] s = "box" ->
         <<"b", "o", "x">>
    [] s = "juice" ->
         <<"j", "u", "i", "c", "e">>
    [] s = "soda" ->
         <<"s", "o", "d", "a">>
    [] s = "water" ->
         <<"w", "a", "t", "e", "r">>
    [] s = "drink" ->
         <<"d", "r", "i", "n", "k">>
    [] s = "beverage" ->
         <<"b", "e", "v", "e", "r", "a", "g", "e">>

UpperCase == <<"A", "B", "C", "D", "E", "F", "G", "H", "I", "J", "K", "L", "M",
               "N", "O", "P", "Q", "R", "S", "T", "U", "V", "W", "X", "Y", "Z">>
LowerCase == <<"a", "b", "c", "d", "e", "f", "g", "h", "i", "j", "k", "l", "m",
               "n", "o", "p", "q", "r", "s", "t", "u", "v", "w", "x", "y", "z">>

\* s.toLowerCase(), as characters
toLowerCase(s) ==
  [i \in 1..Len(Chars(s)) |->
     IF \E k \in 1..26 : UpperCase[k] = Chars(s)[i]
     THEN LowerCase[CHOOSE k \in 1..26 : UpperCase[k] = Chars(s)[i]]
     ELSE Chars(s)[i]]

\* s.includes(v), on characters
includes(s, v) ==
  \E i \in 1..(Len(s) - Len(v) + 1) : SubSeq(s, i, i + Len(v) - 1) = v

\* the empty text, and NULL in pickup_coordinates
Empty == ""
NoPoint == << >>

\* LocationPicker.mockSuggestions (the first and the third of the ten)
mockSuggestions ==
  <<"123 Main Street, New York, NY 10001", "789 Pine Road, Chicago, IL 60601">>

\* geocodeAddress.mockCoordinates, in the order of its entries (numbers are
\* kept as the text JavaScript prints for them)
mockCoordinates ==
  << [city |-> "New York", coords |-> [lat |-> "40.7128", lng |-> "-74.006"]],
     [city |-> "Los Angeles", coords |-> [lat |-> "34.0522", lng |-> "-118.2437"]],
     [city |-> "Chicago", coords |-> [lat |-> "41.8781", lng |-> "-87.6298"]],
     [city |-> "Houston", coords |-> [lat |-> "29.7604", lng |-> "-95.3698"]],
     [city |-> "Phoenix", coords |-> [lat |-> "33.4484", lng |-> "-112.074"]] >>

\* geocodeAddress: the first city whose name the address contains, or the
\* default coordinates (San Francisco)
geocodeAddress(a) ==
  LET hits == {k \in 1..Len(mockCoordinates) :
                 includes(toLowerCase(a), toLowerCase(mockCoordinates[k].city))}
  IN IF hits # {}
     THEN mockCoordinates[CHOOSE k \in hits : \A j \in hits : k <= j].coords
     ELSE [lat |-> "37.7749", lng |-> "-122.4194"]

\* the template `(${lat},${lng})`
FormatPoint(c) == <<"(", c.lat, ",", c.lng, ")">>

\* no coordinates in the coordinates state
NoCoordinates == [lat |-> "none", lng |-> "none"]

NoCall == [op |-> "none", id |-> 0]
NoAlert == [user |-> Null, kind |-> "none", id |-> 0]

DonationIds == 1..Len(donations)

\* ------------------------------------------------------ row-level policies

\* uid() IN (SELECT profiles.id FROM profiles WHERE profiles.user_type = r)
HasRole(uid, r) == user_type(uid) = r

\* policy "Donors can create donations": WITH CHECK (uid() = donor_id)
DonorsCanCreate_Check(uid, row) == uid = row.donor_id

\* policy "Donors can read own donations": USING (uid() = donor_id)
DonorsCanRead_Using(uid, row) == uid = row.donor_id

\* variant: an accepted row is readable by every shelter
SheltersCanRead_Using_AnyShelter(uid, row) ==
  \/ row.status = "pending"
  \/ (row.shelter_id # Null /\ HasRole(uid, "shelter"))

\* policy "Shelters can read pending donations"
SheltersCanRead_Using(uid, row) ==
  \/ row.status = "pending"
  \/ (row.shelter_id # Null /\ row.shelter_id = uid /\ HasRole(uid, "shelter"))

\* policy "Volunteers can read accepted donations"
VolunteersCanRead_Using(uid, row) ==
  /\ row.status \in {"accepted", "completed"}
  /\ HasRole(uid, "volunteer")

\* variant: the USING clause without its test of the stored status
SheltersCanUpdate_Using_AnyStatus(uid, row) == HasRole(uid, "shelter")

\* policy "Shelters can update donations to accepted": USING
SheltersCanUpdate_Using(uid, row) ==
  row.status = "pending" /\ HasRole(uid, "shelter")

\* policy "Shelters can update donations to accepted": WITH CHECK
SheltersCanUpdate_Check(uid, row) ==
  row.status = "accepted" /\ row.shelter_id = uid

\* variant: the USING clause without its test of the stored status
VolunteersCanUpdate_Using_AnyStatus(uid, row) == HasRole(uid, "volunteer")

\* variant: the USING clause also passes rows that are already completed
VolunteersCanUpdate_Using_Redo(uid, row) ==
  row.status \in {"accepted", "completed"} /\ HasRole(uid, "volunteer")

\* policy "Volunteers can update donations to completed": USING
VolunteersCanUpdate_Using(uid, row) ==
  row.status = "accepted" /\ HasRole(uid, "volunteer")

\* policy "Volunteers can update donations to completed": WITH CHECK
VolunteersCanUpdate_Check(uid, row) == row.status = "completed"

\* The SELECT policies are permissive: a row is readable if any of them passes.
SelectAllowed(uid, row) ==
  \/ DonorsCanRead_Using(uid, row)
  \/ SheltersCanRead_Using(uid, row)
  \/ VolunteersCanRead_Using(uid, row)

\* The UPDATE policies are permissive: the stored row is a target of the
\* UPDATE if the USING clause of any of them passes ...
UpdateUsing(uid, row) ==
  \/ SheltersCanUpdate_Using(uid, row)
  \/ VolunteersCanUpdate_Using(uid, row)

\* ... and the new row is accepted if the WITH CHECK clause of any of them passes.
UpdateCheck(uid, row) ==
  \/ SheltersCanUpdate_Check(uid, row)
  \/ VolunteersCanUpdate_Check(uid, row)

\* ------------------------------------------------------------- the trigger

\* update_donation_timestamps(), BEFORE UPDATE FOR EACH ROW
update_donation_timestamps(new, old) ==
  LET n1 == IF new.status = "accepted" /\ old.status = "pending"
            THEN [new EXCEPT !.accepted_at = Now] ELSE new
      n2 == IF new.status = "completed" /\ old.status = "accepted"
            THEN [n1 EXCEPT !.completed_at = Now] ELSE n1
  IN n2

\* -------------------------------------------------------------- UPDATE

\* the row after SET: the columns named in the request take the request's values
Columns ==
  {"status", "donor_id", "shelter_id", "volunteer_id", "created_at", "accepted_at",
   "completed_at", "donor_name", "food_type", "quantity", "pickup_location",
   "pickup_coordinates", "notes"}

ApplySet(old, set) ==
  [c \in Columns |-> IF c \in DOMAIN set THEN set[c] ELSE old[c]]

\* UPDATE donations SET set WHERE id = d, sent by uid.  The stored row is a
\* target only if uid may read it and an UPDATE policy's USING passes; a row
\* that is no target is skipped without an error.  The trigger runs on a
\* target row, then the new row must pass an UPDATE policy's WITH CHECK and
\* be readable by uid, or the statement fails with an error.
UpdateResult(uid, old, set) ==
  LET target == SelectAllowed(uid, old) /\ UpdateUsing(uid, old)
      new == update_donation_timestamps(ApplySet(old, set), old)
      ok == UpdateCheck(uid, new) /\ SelectAllowed(uid, new)
  IN [rows  |-> IF target /\ ok THEN 1 ELSE 0,
      error |-> target /\ ~ok,
      row   |-> IF target /\ ok THEN new ELSE old]

\* ------------------------------------------------------------ change feed

\* the identities whose NotificationSystem channel is joined, in the order in
\* which the deliveries of one event are queued
SubscriberOrder == <<"D1", "S1", "V1">>
Subscribers == {SubscriberOrder[i] : i \in 1..Len(SubscriberOrder)}

RECURSIVE Deliveries(_, _, _)
Deliveries(i, ev, row) ==
  IF i > Len(SubscriberOrder) THEN << >>
  ELSE (IF SelectAllowed(SubscriberOrder[i], row)
        THEN <<[to |-> SubscriberOrder[i], eventType |-> ev.eventType, id |-> ev.id, new |-> row]>>
        ELSE << >>) \o Deliveries(i + 1, ev, row)

\* A committed write is published to every subscriber that may read the new
\* row.  Subscribers do not see each other's deliveries, so the feed keeps the
\* pending deliveries in one queue, in publication order.
Publish(kind, d, row) ==
  feed \o Deliveries(1, [eventType |-> kind, id |-> d], row)

Pending(s) == Cardinality({i \in 1..Len(feed) : feed[i].to = s})

\* bound on the feed: a write waits while a subscriber that would get its
\* event has MaxQueue events pending
FeedHasRoom(row) ==
  \A s \in Subscribers : SelectAllowed(s, row) => Pending(s) < MaxQueue

\* ---------------------------------------------------------- the list pages

\* bound on the reads one list page has in flight
MaxFetches == 2
\* bound on the list pages followed at the same time
MaxPages == 1

\* a list page that is not open
NoList == [mounted |-> FALSE, subscribed |-> FALSE, donations |-> {},
           fetches |-> << >>, events |-> 0]

\* a read the page has sent and the ledger has not executed yet; the reads
\* in flight are kept in the order of their start, and `overtaken` tells
\* that the answer to a read started later has arrived already
SentFetch == [read |-> FALSE, data |-> {}, overtaken |-> FALSE]

\* IncomingRequests: .eq('status', 'pending') in fetchPendingDonations and
\* filter 'status=eq.pending' of its channel
PendingFilter(row) == row.status = "pending"

\* MyPickups: .in('status', ['accepted', 'completed']) in
\* fetchAcceptedDonations and filter 'status=in.(accepted,completed)' of its
\* channel
AcceptedFilter(row) == row.status \in {"accepted", "completed"}

\* the filter of the list page the routes give u: /requests to a shelter
\* profile, /pickups to a volunteer profile
PageFilter(u, row) ==
  IF profile[u].user_type = "shelter" THEN PendingFilter(row) ELSE AcceptedFilter(row)

\* what the page's full read returns when the ledger executes it now
FreshRead(u) ==
  {[id |-> d, row |-> donations[d]] :
     d \in {e \in DonationIds : SelectAllowed(u, donations[e]) /\ PageFilter(u, donations[e])}}

\* the change feed hands a committed write to every joined page channel whose
\* owner may read the new row and whose filter the new row passes
Notified(a, row) ==
  lists[a].subscribed /\ SelectAllowed(a, row) /\ PageFilter(a, row)

PagePublish(row) ==
  [a \in Actors |-> IF Notified(a, row)
                    THEN [lists[a] EXCEPT !.events = @ + 1] ELSE lists[a]]

\* bound on the page channels: a write waits while a page that would get its
\* event has MaxQueue events pending
PagesHaveRoom(row) ==
  \A a \in Actors : Notified(a, row) => lists[a].events < MaxQueue

\* fetchPendingDonations() / fetchAcceptedDonations() called by u's page, if
\* it is open: the read is sent
Refetch(u, ls) ==
  IF ls[u].mounted THEN [ls EXCEPT ![u].fetches = Append(@, SentFetch)] ELSE ls

\* the page's useEffect on mount: the full read is sent, then the channel is
\* created and .subscribe() asks the server to join it
mountPage(u) ==
  /\ ~lists[u].mounted
  /\ Cardinality({a \in Actors : lists[a].mounted}) < MaxPages
  /\ profile[u].user_type \in {"shelter", "volunteer"}
  /\ lists' = [lists EXCEPT ![u] = [NoList EXCEPT !.mounted = TRUE,
                                                  !.fetches = <<SentFetch>>]]
  /\ alert' = NoAlert
  /\ UNCHANGED <<donations, seq, inflight, feed, notifications, otherVars>>

\* the server joins the channel: from now on changes are handed to the page
SubscriptionJoined(u) ==
  /\ lists[u].mounted /\ ~lists[u].subscribed
  /\ lists' = [lists EXCEPT ![u].subscribed = TRUE]
  /\ alert' = NoAlert
  /\ UNCHANGED <<donations, seq, inflight, feed, notifications, otherVars>>

\* the useEffect's cleanup on unmount: subscription.unsubscribe(); the state
\* of the component is gone and answers to its reads go nowhere
unmountPage(u) ==
  /\ lists[u].mounted
  /\ lists' = [lists EXCEPT ![u] = NoList]
  /\ alert' = NoAlert
  /\ UNCHANGED <<donations, seq, inflight, feed, notifications, otherVars>>

\* the ledger executes the page's i-th read in flight
FetchReads(u, i) ==
  /\ i \in 1..Len(lists[u].fetches)
  /\ ~lists[u].fetches[i].read
  /\ lists' = [lists EXCEPT ![u].fetches[i] = [@ EXCEPT !.read = TRUE, !.data = FreshRead(u)]]
  /\ alert' = NoAlert
  /\ UNCHANGED <<donations, seq, inflight, feed, notifications, otherVars>>

\* the answer to the i-th read arrives, whatever was started before or after
\* it: setDonations(data || [])
FetchReturns(u, i) ==
  /\ i \in 1..Len(lists[u].fetches)
  /\ lists[u].fetches[i].read
  /\ lists' = [lists EXCEPT
                 ![u].donations = lists[u].fetches[i].data,
                 ![u].fetches = [j \in 1..(Len(@) - 1) |->
                                   IF j < i THEN [@[j] EXCEPT !.overtaken = TRUE]
                                   ELSE @[j + 1]]]
  /\ alert' = NoAlert
  /\ UNCHANGED <<donations, seq, inflight, feed, notifications, otherVars>>

\* the channel's callback on a change event: () => fetchPendingDonations(),
\* () => fetchAcceptedDonations()
handleListChange(u) ==
  /\ lists[u].events > 0
  /\ Len(lists[u].fetches) < MaxFetches
  /\ lists' = Refetch(u, [lists EXCEPT ![u].events = @ - 1])
  /\ alert' = NoAlert
  /\ UNCHANGED <<donations, seq, inflight, feed, notifications, otherVars>>

\* ------------------------------------------------------------------- Init

\* the form as the page's useState and the reset in handleSubmit set it
ResetForm(u) ==
  [donor_name |-> profile[u].name, food_type |-> "", quantity |-> "",
   pickup_location |-> Empty, notes |-> ""]

NoRow == [status |-> "none"]
NoDashboard == [user |-> Null, allDonations |-> {}, recentActivity |-> {},
                stats |-> [totalDonations |-> 0, activeDonations |-> 0,
                           completedDonations |-> 0, userDonations |-> 0]]

\* AuthProvider's useState initial values: user null, profile null, loading true
NoProfile == [id |-> Null, user_type |-> "none", name |-> ""]
NoResponse == [user |-> Null, op |-> "none", id |-> 0, target |-> Null, rows |-> {},
               error |-> FALSE, message |-> ""]

\* the supabase client holds no session; the identities of Init are the
\* rows in auth.users
NoSession == [user |-> Null, users |-> Actors]

\* no list page is followed, the AuthProvider is as constructed and no
\* direct API call on profiles has been sent
ViewInit ==
  /\ lists = [a \in Actors |-> NoList]
  /\ auth = [user |-> Null, profile |-> NoProfile, loading |-> TRUE]
  /\ calls = {}
  /\ session = NoSession
  /\ response = NoResponse
  /\ location = "/"

Init ==
  /\ donations = << >>
  /\ seq = 0
  /\ inflight = [a \in Actors |-> NoCall]
  /\ alert = NoAlert
  /\ feed = << >>
  /\ notifications = [a \in Actors |-> << >>]
  /\ clock = [a \in Actors |-> 0]
  /\ profiles = [a \in Actors |-> [id |-> a, user_type |-> SignedUpAs(a), name |-> a]]
  /\ profile = profiles
  /\ formData = ResetForm("D1")
  /\ coordinates = NoCoordinates
  /\ address = Empty
  /\ suggestions = << >>
  /\ showSuggestions = FALSE
  /\ submittedDonation = NoRow
  /\ dashboard = NoDashboard
  /\ ViewInit

\* ------------------------------------------------------- the Donate form

\* handleInputChange for the field `name` of the form
handleInputChange(name, value) ==
  /\ formData' = [formData EXCEPT ![name] = value]
  /\ alert' = NoAlert
  /\ UNCHANGED <<donations, seq, inflight, feed, notifications, clock, lists, viewVars, authVars,
                 coordinates, address, suggestions, showSuggestions,
                 submittedDonation, dashboard>>

\* DonateSurplus: the options of the food_type select
foodTypeOptions ==
  <<"Prepared Meals",
    "Bakery Items",
    "Dairy Products",
    "Fresh Produce",
    "Packaged Foods",
    "Beverages",
    "Canned Goods",
    "Frozen Items",
    "Other Food Items">>

\* classifyFoodType(rawFoodInput): the first group of keywords one of which
\* rawFoodInput.toLowerCase() includes gives the category
classifyFoodType(rawFoodInput) ==
  LET input == toLowerCase(rawFoodInput)
      Has(keyword) == includes(input, Chars(keyword))
  IN
    IF Has("sandwich") \/ Has("burger") \/ Has("pizza") \/ Has("soup") \/ Has("meal") \/ Has("cooked")
    THEN "Prepared Meals" ELSE
    IF Has("bread") \/ Has("cake") \/ Has("pastry") \/ Has("donut") \/ Has("muffin")
    THEN "Bakery Items" ELSE
    IF Has("milk") \/ Has("cheese") \/ Has("yogurt") \/ Has("dairy")
    THEN "Dairy Products" ELSE
    IF Has("apple") \/ Has("banana") \/ Has("vegetable") \/ Has("fruit") \/ Has("produce")
    THEN "Fresh Produce" ELSE
    IF Has("can") \/ Has("jar") \/ Has("bottle") \/ Has("packaged") \/ Has("box")
    THEN "Packaged Foods" ELSE
    IF Has("juice") \/ Has("soda") \/ Has("water") \/ Has("drink") \/ Has("beverage")
    THEN "Beverages" ELSE
    "Other Food Items"

\* the 'AI Classify' button, disabled without a food type: classifyFood sets
\* food_type to the answer of classifyFoodType(formData.food_type)
classifyFood ==
  /\ formData.food_type # ""
  /\ formData' = [formData EXCEPT !.food_type = classifyFoodType(formData.food_type)]
  /\ alert' = NoAlert
  /\ UNCHANGED <<donations, seq, inflight, feed, notifications, clock, lists, viewVars, authVars,
                 coordinates, address, suggestions, showSuggestions,
                 submittedDonation, dashboard>>

\* mockSuggestions.filter(...).slice(0, 5)
FilteredSuggestions(value) ==
  LET Hit(sg) == includes(toLowerCase(sg), toLowerCase(value))
      filtered == SelectSeq(mockSuggestions, Hit)
  IN SubSeq(filtered, 1, IF Len(filtered) < 5 THEN Len(filtered) ELSE 5)

\* LocationPicker.handleAddressChange: typing in the picker's input
handleAddressChange(value) ==
  /\ address' = value
  /\ IF Len(Chars(value)) > 2
     THEN suggestions' = FilteredSuggestions(value) /\ showSuggestions' = TRUE
     ELSE showSuggestions' = FALSE /\ UNCHANGED suggestions
  /\ alert' = NoAlert
  /\ UNCHANGED <<donations, seq, inflight, feed, notifications, clock, lists, viewVars, authVars,
                 formData, coordinates, submittedDonation, dashboard>>

\* the mock coordinates selectSuggestion passes on
SuggestionPoint == [lat |-> "40.7128", lng |-> "-74.006"]

\* LocationPicker.selectSuggestion on a suggestion that is shown, with
\* DonateSurplus.handleLocationSelect as its onLocationSelect
selectSuggestion(sg) ==
  /\ showSuggestions
  /\ \E i \in 1..Len(suggestions) : suggestions[i] = sg
  /\ address' = sg
  /\ showSuggestions' = FALSE
  /\ formData' = [formData EXCEPT !.pickup_location = sg]
  /\ coordinates' = SuggestionPoint
  /\ alert' = NoAlert
  /\ UNCHANGED <<donations, seq, inflight, feed, notifications, clock, lists, viewVars, authVars,
                 suggestions, submittedDonation, dashboard>>

\* The donor's input taken as one step: handleInputChange for food_type and
\* for quantity, handleAddressChange and selectSuggestion of the suggestion
\* it shows.  Fillings are bounded as Create is.
fillForm(u) ==
  /\ profile[u].user_type = "donor"
  /\ formData = ResetForm(u)
  /\ Len(donations) < MaxDonations
  /\ formData' = [formData EXCEPT !.food_type = "Bakery Items",
                                  !.quantity = "5 trays",
                                  !.pickup_location = mockSuggestions[2]]
  /\ coordinates' = SuggestionPoint
  /\ address' = mockSuggestions[2]
  /\ suggestions' = <<mockSuggestions[2]>>
  /\ showSuggestions' = FALSE
  /\ alert' = NoAlert
  /\ UNCHANGED <<donations, seq, inflight, feed, notifications, clock, lists, viewVars, authVars,
                 submittedDonation, dashboard>>

\* ----------------------------------------------------------------- Create

\* the `required` attributes of the form's donor_name, food_type and quantity
\* controls: the browser does not raise the submit event while one is empty
\* (the LocationPicker's input has no such attribute)
Submittable ==
  formData.donor_name # "" /\ formData.food_type # "" /\ formData.quantity # ""

\* variant: the notes are sent as they are typed
CreateRow_NotesAsTyped(u, f, c) ==
  [status |-> "pending", donor_id |-> u, shelter_id |-> Null,
   volunteer_id |-> Null, created_at |-> Now,
   accepted_at |-> NullTime, completed_at |-> NullTime,
   donor_name |-> f.donor_name, food_type |-> f.food_type,
   quantity |-> f.quantity, pickup_location |-> f.pickup_location,
   pickup_coordinates |-> IF c # NoCoordinates THEN FormatPoint(c) ELSE NoPoint,
   notes |-> f.notes]

\* the row of the INSERT: the values handleSubmit sends, the column defaults
\* for the rest
CreateRow(u, f, c) ==
  [status |-> "pending", donor_id |-> u, shelter_id |-> Null,
   volunteer_id |-> Null, created_at |-> Now,
   accepted_at |-> NullTime, completed_at |-> NullTime,
   donor_name |-> f.donor_name, food_type |-> f.food_type,
   quantity |-> f.quantity, pickup_location |-> f.pickup_location,
   pickup_coordinates |-> IF c # NoCoordinates THEN FormatPoint(c) ELSE NoPoint,
   notes |-> IF f.notes # "" THEN f.notes ELSE Null]

\* DonateSurplus.handleSubmit on the /donate route (ProtectedRoute userType
\* donor): INSERT ... status 'pending', donor_id = user.id, then .select(),
\* setSubmittedDonation(data) and the reset of the form
handleSubmit(u) ==
  LET finalCoordinates ==
        IF coordinates = NoCoordinates /\ formData.pickup_location # Empty
        THEN geocodeAddress(formData.pickup_location) ELSE coordinates
      row == CreateRow(u, formData, finalCoordinates)
  IN /\ u \in Donors /\ profile[u].user_type = "donor"
     /\ Submittable
     /\ Len(donations) < MaxDonations
     /\ seq < MaxWrites
     /\ DonorsCanCreate_Check(u, row) /\ SelectAllowed(u, row)
     /\ FeedHasRoom(row) /\ PagesHaveRoom(row)
     /\ donations' = Append(donations, row)
     /\ seq' = seq + 1
     /\ feed' = Publish("INSERT", Len(donations) + 1, row)
     /\ submittedDonation' = row
     /\ formData' = ResetForm(u)
     /\ coordinates' = NoCoordinates
     /\ alert' = NoAlert
     /\ lists' = PagePublish(row)
     /\ UNCHANGED <<inflight, notifications, clock, authVars, address,
                    suggestions, showSuggestions, dashboard, viewVars>>

\* ----------------------------------------------------------------- Accept

\* acceptDonation up to the await: the shelter page (ProtectedRoute userType
\* shelter) sends UPDATE status = 'accepted', shelter_id = user.id WHERE id = d
\* for a donation of its list, which may be stale
acceptDonation(u, d) ==
  /\ profile[u].user_type = "shelter"
  /\ d \in DonationIds
  /\ inflight[u] = NoCall
  /\ inflight' = [inflight EXCEPT ![u] = [op |-> "accept", id |-> d]]
  /\ alert' = NoAlert
  /\ UNCHANGED <<donations, seq, feed, notifications, lists, otherVars>>

AcceptSet(u) == [status |-> "accepted", shelter_id |-> u]

\* completeDonation up to the await: the volunteer page (ProtectedRoute
\* userType volunteer) sends UPDATE status = 'completed', volunteer_id = user.id
completeDonation(u, d) ==
  /\ profile[u].user_type = "volunteer"
  /\ d \in DonationIds
  /\ inflight[u] = NoCall
  /\ inflight' = [inflight EXCEPT ![u] = [op |-> "complete", id |-> d]]
  /\ alert' = NoAlert
  /\ UNCHANGED <<donations, seq, feed, notifications, lists, otherVars>>

CompleteSet(u) == [status |-> "completed", volunteer_id |-> u]

\* what the handler does with the answer: if (error) throw error -> the
\* catch block's failure alert; otherwise the success alert
AlertFor(u, op, d, error) ==
  [user |-> u,
   kind |-> IF op = "accept"
            THEN (IF error THEN "accept_failed" ELSE "accepted")
            ELSE (IF error THEN "complete_failed" ELSE "completed"),
   id |-> d]

\* The ledger executes the pending UPDATE of u as one atomic statement and the
\* handler runs to its end on the answer.
ApplyUpdate(u) ==
  LET call == inflight[u]
      d == call.id
      set == IF call.op = "accept" THEN AcceptSet(u) ELSE CompleteSet(u)
      res == UpdateResult(u, donations[d], set)
  IN /\ call # NoCall
     /\ res.rows = 1 => (seq < MaxWrites /\ FeedHasRoom(res.row) /\ PagesHaveRoom(res.row))
     /\ ~res.error => Len(lists[u].fetches) < MaxFetches
     /\ donations' = [donations EXCEPT ![d] = res.row]
     /\ seq' = IF res.rows = 1 THEN seq + 1 ELSE seq
     /\ feed' = IF res.rows = 1 THEN Publish("UPDATE", d, res.row) ELSE feed
     /\ alert' = AlertFor(u, call.op, d, res.error)
     /\ inflight' = [inflight EXCEPT ![u] = NoCall]
     \* after the success alert: "Refresh the list"
     /\ lists' = IF res.error THEN lists
                 ELSE Refetch(u, IF res.rows = 1 THEN PagePublish(res.row) ELSE lists)
     /\ UNCHANGED <<notifications, otherVars>>

\* The request does not reach the ledger (network failure, timeout): the
\* client library answers with an error and nothing is written.
RequestFails(u) ==
  LET call == inflight[u]
  IN /\ call # NoCall
     /\ alert' = AlertFor(u, call.op, call.id, TRUE)
     /\ inflight' = [inflight EXCEPT ![u] = NoCall]
     /\ UNCHANGED <<donations, seq, feed, notifications, lists, otherVars>>

\* ------------------------------------------------------------ direct write

\* SET clauses of an UPDATE sent to the donations table through the API,
\* without the pages
DirectSets(u) ==
  { [status |-> st] : st \in Statuses }
  \cup { [status |-> st, shelter_id |-> sh] : st \in Statuses, sh \in {Null, u} }
  \cup { [status |-> st, volunteer_id |-> vo] : st \in Statuses, vo \in {Null, u} }

\* UPDATE donations SET set WHERE id = d sent by u; a statement that changes
\* no row (no target, or an error) leaves every variable as it is
DirectUpdate(u, d, set) ==
  /\ d \in DonationIds
  /\ seq < MaxWrites
  /\ UpdateUsing(u, donations[d])
  /\ LET res == UpdateResult(u, donations[d], set)
     IN /\ res.rows = 1
        /\ FeedHasRoom(res.row) /\ PagesHaveRoom(res.row)
        /\ donations' = [donations EXCEPT ![d] = res.row]
        /\ feed' = Publish("UPDATE", d, res.row)
        /\ lists' = PagePublish(res.row)
  /\ seq' = seq + 1
  /\ alert' = NoAlert
  /\ UNCHANGED <<inflight, notifications, otherVars>>

\* ----------------------------------------------------- NotificationSystem

\* payload.old of an UPDATE event carries the primary key only (the
\* migrations leave the table's replica identity at its default), so
\* oldRecord?.status is undefined
Undefined == "undefined"
OldStatus(ev) == Undefined

\* the notification handleDonationChange builds for the payload, or none;
\* a message is kept as the parts of its template
NoNotification ==
  [id |-> <<"none", 0>>, type |-> "none", title |-> "none", message |-> << >>,
   timestamp |-> 0, read |-> FALSE]

NotificationFor(u, ev, now) ==
  IF ev.eventType = "INSERT" /\ profile[u].user_type = "shelter"
  THEN [id |-> <<"donation", ev.id>>, type |-> "info",
        title |-> "New Donation Available",
        message |-> <<ev.new.donor_name, " has donated ", ev.new.quantity, " of ",
                      ev.new.food_type>>,
        timestamp |-> now, read |-> FALSE]
  ELSE IF ev.eventType = "UPDATE" /\ OldStatus(ev) # ev.new.status
  THEN IF ev.new.status = "accepted" /\ ev.new.donor_id = u
       THEN [id |-> <<"accepted", ev.id>>, type |-> "success",
             title |-> "Donation Accepted!",
             message |-> <<"Your donation of ", ev.new.quantity, " ", ev.new.food_type,
                           " has been accepted by a shelter.">>,
             timestamp |-> now, read |-> FALSE]
       ELSE IF ev.new.status = "completed" /\ ev.new.donor_id = u
       THEN [id |-> <<"completed", ev.id>>, type |-> "success",
             title |-> "Donation Completed!",
             message |-> <<"Your donation of ", ev.new.quantity, " ", ev.new.food_type,
                           " has been successfully delivered.">>,
             timestamp |-> now, read |-> FALSE]
       ELSE IF ev.new.status = "accepted" /\ profile[u].user_type = "volunteer"
       THEN [id |-> <<"pickup", ev.id>>, type |-> "info",
             title |-> "New Pickup Available",
             message |-> <<"Pickup needed: ", ev.new.quantity, " of ", ev.new.food_type,
                           " from ", ev.new.donor_name>>,
             timestamp |-> now, read |-> FALSE]
       ELSE NoNotification
  ELSE NoNotification

\* variant: prev.slice(0, 10)
Slice10(list) == SubSeq(list, 1, IF Len(list) < 10 THEN Len(list) ELSE 10)

\* prev.slice(0, 9)
Slice9(list) == SubSeq(list, 1, IF Len(list) < 9 THEN Len(list) ELSE 9)

\* the subscription callback: handleDonationChange(payload) for the oldest
\* pending delivery, which is for subscriber u; new Date() is the reading of
\* u's clock
handleDonationChange(u) ==
  /\ feed # << >>
  /\ Head(feed).to = u
  /\ LET ev == Head(feed)
         n == NotificationFor(u, ev, clock[u] + 1)
     IN /\ feed' = Tail(feed)
        /\ notifications' =
             IF n # NoNotification
             THEN [notifications EXCEPT ![u] = <<n>> \o Slice9(notifications[u])]
             ELSE notifications
        /\ clock' = IF n # NoNotification
                    THEN [clock EXCEPT ![u] = clock[u] + 1] ELSE clock
  /\ alert' = NoAlert
  /\ UNCHANGED <<donations, seq, inflight, authVars, formVars, dashboard, lists, viewVars>>

\* the ids in u's list
ListedIds(u) == {notifications[u][i].id : i \in 1..Len(notifications[u])}

\* markAsRead(id) on a notification of u's list
markAsRead(u, id) ==
  /\ id \in ListedIds(u)
  /\ notifications' =
       [notifications EXCEPT ![u] =
          [i \in 1..Len(notifications[u]) |->
             IF notifications[u][i].id = id
             THEN [notifications[u][i] EXCEPT !.read = TRUE]
             ELSE notifications[u][i]]]
  /\ alert' = NoAlert
  /\ UNCHANGED <<donations, seq, inflight, feed, lists, otherVars>>

\* clearNotification(id) on a notification of u's list
clearNotification(u, id) ==
  /\ id \in ListedIds(u)
  /\ LET Keep(n) == n.id # id
     IN notifications' = [notifications EXCEPT ![u] = SelectSeq(notifications[u], Keep)]
  /\ alert' = NoAlert
  /\ UNCHANGED <<donations, seq, inflight, feed, lists, otherVars>>

\* ---------------------------------------------------------------- Dashboard

\* Dashboard.fetchDashboardData of u: the first query has no filter, so it
\* returns the rows the SELECT policies let u read; the second adds the
\* filter of u's role (kept as the set of its rows: order and limit(5) do not
\* show with fewer than five donations)
fetchDashboardData(u) ==
  LET visible == {d \in DonationIds : SelectAllowed(u, donations[d])}
      activity ==
        IF profile[u].user_type = "donor"
        THEN {d \in visible : donations[d].donor_id = profile[u].id}
        ELSE IF profile[u].user_type = "shelter"
        THEN {d \in visible : donations[d].status = "pending"
                               \/ donations[d].shelter_id = profile[u].id}
        ELSE {d \in visible : donations[d].status \in {"accepted", "completed"}}
  IN /\ dashboard' =
          [user |-> u, allDonations |-> visible, recentActivity |-> activity,
           stats |-> [totalDonations |-> Cardinality(visible),
                      activeDonations |-> Cardinality({d \in visible :
                         donations[d].status \in {"pending", "accepted"}}),
                      completedDonations |-> Cardinality({d \in visible :
                         donations[d].status = "completed"}),
                      userDonations |-> Cardinality({d \in visible :
                         donations[d].donor_id = profile[u].id})]]
     /\ alert' = NoAlert
     /\ UNCHANGED <<donations, seq, inflight, feed, notifications, clock, lists, viewVars,
                    authVars, formVars>>

\* ----------------------------------------------------------------- profiles

\* policy "Users can update own profile": USING (uid() = id)
UsersCanUpdateOwn_Using(uid, row) == uid = row.id

\* policy "Users can update own profile": WITH CHECK (uid() = id)
UsersCanUpdateOwn_Check(uid, row) == uid = row.id

\* a variant whose SELECT policy passes every row to every authenticated user
UsersCanReadOwn_Using_Anyone(uid, row) == TRUE

\* policy "Users can read own profile": USING (uid() = id)
UsersCanReadOwn_Using(uid, row) == uid = row.id

\* the identities whose profile writes are followed
ProfileWriters == {"S1", "V1"}

\* the `updates` of a profile write: a Partial<UserProfile>
ProfileUpdates ==
  { [user_type |-> t] : t \in UserTypes } \cup { [name |-> "Renamed"] }

ApplyProfileSet(old, set) ==
  [id |-> old.id,
   user_type |-> IF "user_type" \in DOMAIN set THEN set.user_type ELSE old.user_type,
   name |-> IF "name" \in DOMAIN set THEN set.name ELSE old.name]

\* UPDATE profiles SET updates WHERE id = t, sent by uid
ProfileUpdateResult(uid, t, updates) ==
  LET old == profiles[t]
      new == ApplyProfileSet(old, updates)
      target == UsersCanReadOwn_Using(uid, old) /\ UsersCanUpdateOwn_Using(uid, old)
      ok == UsersCanUpdateOwn_Check(uid, new) /\ new.user_type \in UserTypes
  IN IF target /\ ok THEN new ELSE old

\* AuthContext.updateProfile(updates) of the logged-in u: the UPDATE of the
\* own row, then fetchProfile, whose answer becomes the profile state
updateProfile(u, updates) ==
  /\ profiles' = [profiles EXCEPT ![u] = ProfileUpdateResult(u, u, updates)]
  /\ profile' = [profile EXCEPT ![u] = profiles'[u]]
  /\ alert' = NoAlert
  /\ UNCHANGED <<donations, seq, inflight, feed, notifications, clock, lists, viewVars,
                 formVars, dashboard>>

\* UPDATE profiles SET updates WHERE id = t sent by u through the API; the
\* profile state of the clients is not refreshed
DirectProfileUpdate(u, t, updates) ==
  /\ profiles' = [profiles EXCEPT ![t] = ProfileUpdateResult(u, t, updates)]
  /\ response' = [user |-> u, op |-> "update", id |-> 0, target |-> t,
                  rows |-> {}, error |-> FALSE, message |-> ""]
  /\ alert' = NoAlert
  /\ UNCHANGED <<donations, seq, inflight, feed, notifications, clock, lists, profile,
                 formVars, dashboard, auth, calls, session, location>>

\* policy "Users can create own profile": WITH CHECK (uid() = id)
UsersCanCreateOwn_Check(uid, row) == uid = row.id

\* the identity has a row in profiles
HasProfile(t) == profiles[t] # NoProfile

\* INSERT INTO profiles (id, user_type, ...) VALUES (t, ty, ...) sent by u
\* through the API: the policy's check, the primary key and the CHECK on
\* user_type decide; a refused INSERT is answered with an error
DirectProfileInsert(u, t, ty) ==
  LET row == [id |-> t, user_type |-> ty, name |-> t]
      ok == UsersCanCreateOwn_Check(u, row) /\ ~HasProfile(t) /\ ty \in UserTypes
  IN /\ profiles' = IF ok THEN [profiles EXCEPT ![t] = row] ELSE profiles
     /\ response' = [user |-> u, op |-> "insert", id |-> 0, target |-> t,
                     rows |-> {}, error |-> ~ok, message |-> ""]
     /\ alert' = NoAlert
     /\ UNCHANGED <<donations, seq, inflight, feed, notifications, clock, lists, profile,
                    formVars, dashboard, auth, calls, session, location>>

\* SELECT * FROM profiles WHERE id = t sent by u through the API: the rows
\* the SELECT policy passes
DirectProfileSelect(u, t) ==
  /\ response' = [user |-> u, op |-> "select", id |-> 0, target |-> t,
                  rows |-> IF HasProfile(t) /\ UsersCanReadOwn_Using(u, profiles[t])
                           THEN {profiles[t]} ELSE {},
                  error |-> FALSE, message |-> ""]
  /\ alert' = NoAlert
  /\ UNCHANGED <<donations, seq, inflight, feed, notifications, clock, lists, authVars,
                 formVars, dashboard, auth, calls, session, location>>

\* ------------------------------------------------------------ direct INSERT

\* rows of an INSERT sent to the donations table through the API by u, with
\* the content columns of a filled form
ApiRows(u) ==
  LET f == [donor_name |-> profiles[u].name, food_type |-> "Bakery Items",
            quantity |-> "5 trays", pickup_location |-> mockSuggestions[1],
            notes |-> ""]
  IN { [CreateRow(dn, f, NoCoordinates) EXCEPT !.status = st] :
         st \in Statuses, dn \in {u, "D1"} }

\* INSERT INTO donations sent by u; an INSERT the policy denies adds no row
DirectInsert(u, row) ==
  /\ Len(donations) < MaxDonations
  /\ seq < MaxWrites
  /\ DonorsCanCreate_Check(u, row)
  /\ FeedHasRoom(row) /\ PagesHaveRoom(row)
  /\ donations' = Append(donations, row)
  /\ seq' = seq + 1
  /\ feed' = Publish("INSERT", Len(donations) + 1, row)
  /\ lists' = PagePublish(row)
  /\ alert' = NoAlert
  /\ UNCHANGED <<inflight, notifications, otherVars>>

\* SET clauses of a direct UPDATE that also name a column no page writes
ApiSets(u) ==
  { [status |-> st, shelter_id |-> u, donor_id |-> u] : st \in {"accepted", "completed"} }
  \cup { [status |-> st, created_at |-> NullTime] : st \in {"completed"} }
  \cup { [status |-> st, notes |-> "changed"] : st \in {"completed"} }

\* ------------------------------------------------------------ AuthProvider

\* fetchProfile: const maxRetries = 2
maxRetries == 2

\* the identities that use the browser whose AuthProvider is followed
AuthUsers == {"S1", "V2"}

\* what the actions of the AuthProvider leave alone
quietVars == <<donations, seq, inflight, feed, notifications, clock, lists, profile,
               formVars, dashboard, location>>
restVars == <<quietVars, response>>

\* how a function of the AuthProvider called by a page ended: its promise is
\* fulfilled, or rejected with an Error of this message
Fulfilled(op, u) == [NoResponse EXCEPT !.op = op, !.user = u]
Rejected(op, u, message) ==
  [NoResponse EXCEPT !.op = op, !.user = u, !.error = TRUE, !.message = message]

\* an asynchronous call of the AuthProvider in flight
Call(op, userId, retryCount, phase, result, data) ==
  [op |-> op, userId |-> userId, retryCount |-> retryCount, phase |-> phase,
   result |-> result, data |-> data]

FetchCalls == {c \in calls : c.op = "fetchProfile"}

\* fetchProfile(userId) up to its await: the query is sent and the timeout
\* is armed
StartFetch(cs, userId, retryCount) ==
  cs \cup {Call("fetchProfile", userId, retryCount, "sent", "none", NoProfile)}

\* bound on the profile fetches in flight
FetchRoom == Cardinality(FetchCalls) < MaxFetches

\* initializeAuth: the connection test is answered.  An error or the 5 s
\* timeout ends the initialization with user null, profile null and loading
\* false.
InitConnectionTest(ok) ==
  LET c == Call("initializeAuth", Null, 0, "connect", "none", NoProfile)
  IN /\ c \in calls
     /\ IF ok
        THEN /\ calls' = (calls \ {c}) \cup {[c EXCEPT !.phase = "session"]}
             /\ UNCHANGED auth
        ELSE /\ calls' = calls \ {c}
             /\ auth' = [user |-> Null, profile |-> NoProfile, loading |-> FALSE]
     /\ alert' = NoAlert
     /\ UNCHANGED <<profiles, session, restVars>>

\* initializeAuth: getSession() is answered: setUser(session?.user ?? null),
\* then fetchProfile is called for a user, setLoading(false) without one; a
\* session error ends like a failed connection test
InitGetSession(ok) ==
  LET c == Call("initializeAuth", Null, 0, "session", "none", NoProfile)
  IN /\ c \in calls
     /\ IF ~ok
        THEN /\ calls' = calls \ {c}
             /\ auth' = [user |-> Null, profile |-> NoProfile, loading |-> FALSE]
        ELSE IF session.user # Null
        THEN /\ FetchRoom
             /\ calls' = StartFetch(calls \ {c}, session.user, 0)
             /\ auth' = [auth EXCEPT !.user = session.user]
        ELSE /\ calls' = calls \ {c}
             /\ auth' = [auth EXCEPT !.user = Null, !.loading = FALSE]
     /\ alert' = NoAlert
     /\ UNCHANGED <<profiles, session, restVars>>

\* a variant of the callback that does not fetch the profile of the user
onAuthStateChange_NoFetch(a, cs, u) ==
  IF u # Null
  THEN [auth |-> [a EXCEPT !.user = u], calls |-> cs]
  ELSE [auth |-> [user |-> Null, profile |-> NoProfile, loading |-> FALSE], calls |-> cs]

\* The client hands an auth-state event to the onAuthStateChange callback,
\* which runs to its first await: setUser(session?.user ?? null), then
\* fetchProfile is called for a user; without one setProfile(null) and
\* setLoading(false).  The new auth state and the new calls:
onAuthStateChange(a, cs, u) ==
  IF u # Null
  THEN [auth |-> [a EXCEPT !.user = u], calls |-> StartFetch(cs, u, 0)]
  ELSE [auth |-> [user |-> Null, profile |-> NoProfile, loading |-> FALSE], calls |-> cs]

\* the client emits an event for the session it holds (TOKEN_REFRESHED, or
\* SIGNED_IN when the tab gets the focus again)
SessionEvent ==
  /\ session.user # Null
  /\ FetchRoom
  /\ LET h == onAuthStateChange(auth, calls, session.user)
     IN auth' = h.auth /\ calls' = h.calls
  /\ alert' = NoAlert
  /\ UNCHANGED <<profiles, session, restVars>>

\* the ledger answers the query of fetchProfile: .select('*').eq('id',
\* userId).maybeSingle() gives the row, or null without one, or an error
FetchProfileAnswered(c, ok) ==
  /\ c \in FetchCalls /\ c.phase = "sent"
  /\ calls' = (calls \ {c}) \cup
       {IF ~ok THEN [c EXCEPT !.phase = "answered", !.result = "error"]
        ELSE IF HasProfile(c.userId)
        THEN [c EXCEPT !.phase = "answered", !.result = "data", !.data = profiles[c.userId]]
        ELSE [c EXCEPT !.phase = "answered", !.result = "null"]}
  /\ alert' = NoAlert
  /\ UNCHANGED <<profiles, auth, session, restVars>>

\* fetchProfile after its await, the answer having won the race: setProfile
\* of the data, of null on an error or without data; finally setLoading(false)
FetchProfileResolved(c) ==
  /\ c \in FetchCalls /\ c.phase = "answered"
  /\ calls' = calls \ {c}
  /\ auth' = [auth EXCEPT !.profile = IF c.result = "data" THEN c.data ELSE NoProfile,
                          !.loading = FALSE]
  /\ alert' = NoAlert
  /\ UNCHANGED <<profiles, session, restVars>>

\* a variant that retries after every exception and has no limit
ShouldRetry_Always(message, retryCount) == TRUE

\* the catch block's test: error.message === 'Profile fetch timeout' &&
\* retryCount < maxRetries
ShouldRetry(message, retryCount) ==
  message = "Profile fetch timeout" /\ retryCount < maxRetries

\* the race is lost to the timeout (60 s without an answer, the query is
\* aborted), or the await throws another exception: the catch block either
\* starts the 2 s wait before a retry or ends with setProfile(null) and, in
\* the finally, setLoading(false)
FetchProfileThrows(c, message) ==
  /\ c \in FetchCalls /\ c.phase \in {"sent", "answered"}
  /\ IF ShouldRetry(message, c.retryCount)
     THEN /\ calls' = (calls \ {c}) \cup
                {[c EXCEPT !.phase = "waiting", !.result = message, !.data = NoProfile]}
          /\ UNCHANGED auth
     ELSE /\ calls' = calls \ {c}
          /\ auth' = [auth EXCEPT !.profile = NoProfile, !.loading = FALSE]
  /\ alert' = NoAlert
  /\ UNCHANGED <<profiles, session, restVars>>

\* after the 2 s: return fetchProfile(userId, retryCount + 1) starts the next
\* attempt, and the finally block of the attempt that returns runs at once:
\* setLoading(false)
FetchProfileRetry(c) ==
  /\ c \in FetchCalls /\ c.phase = "waiting"
  /\ calls' = StartFetch(calls \ {c}, c.userId, c.retryCount + 1)
  /\ auth' = [auth EXCEPT !.loading = FALSE]
  /\ alert' = NoAlert
  /\ UNCHANGED <<profiles, session, restVars>>

\* the Auth page is shown by AppContent: not loading and no user
AuthPageShown == ~auth.loading /\ auth.user = Null

\* no sign-up, sign-in or sign-out of this browser is in flight
NoFormCall == \A c \in calls : c.op \notin {"signUp", "signIn"}

\* signUp up to its first await: setLoading(true), supabase.auth.signUp sent
signUp(t, userType) ==
  /\ AuthPageShown /\ NoFormCall
  /\ auth' = [auth EXCEPT !.loading = TRUE]
  /\ calls' = calls \cup {Call("signUp", t, 0, "auth", "none",
                               [id |-> t, user_type |-> userType, name |-> t])}
  /\ response' = NoResponse
  /\ alert' = NoAlert
  /\ UNCHANGED <<profiles, session, quietVars>>

\* supabase.auth.signUp is answered.  An error (the email is registered
\* already, the network) is thrown: finally setLoading(false).  Otherwise
\* the user is in auth.users, the client holds its session and emits
\* SIGNED_IN, and signUp sends the INSERT of the profile.
SignUpAuthAnswered(c, ok) ==
  /\ c \in calls /\ c.op = "signUp" /\ c.phase = "auth"
  /\ IF ok /\ c.userId \notin session.users
     THEN /\ FetchRoom
          /\ session' = [user |-> c.userId, users |-> session.users \cup {c.userId}]
          /\ LET h == onAuthStateChange(auth, (calls \ {c}) \cup {[c EXCEPT !.phase = "insert"]},
                                        c.userId)
             IN auth' = h.auth /\ calls' = h.calls
          /\ UNCHANGED response
     ELSE /\ calls' = calls \ {c}
          /\ auth' = [auth EXCEPT !.loading = FALSE]
          /\ response' = Rejected("signUp", c.userId, "User already registered")
          /\ UNCHANGED session
  /\ alert' = NoAlert
  /\ UNCHANGED <<profiles, quietVars>>

\* the INSERT of the profile .select().single() is answered: the row is
\* stored and setProfile(profileResult), or the error is thrown; finally
\* setLoading(false)
SignUpInsertAnswered(c, ok) ==
  /\ c \in calls /\ c.op = "signUp" /\ c.phase = "insert"
  /\ calls' = calls \ {c}
  /\ IF ok /\ UsersCanCreateOwn_Check(c.userId, c.data) /\ ~HasProfile(c.userId)
     THEN /\ profiles' = [profiles EXCEPT ![c.userId] = c.data]
          /\ auth' = [auth EXCEPT !.profile = c.data, !.loading = FALSE]
          /\ response' = Fulfilled("signUp", c.userId)
     ELSE /\ auth' = [auth EXCEPT !.loading = FALSE]
          /\ response' = Rejected("signUp", c.userId, "Failed to create profile")
          /\ UNCHANGED profiles
  /\ alert' = NoAlert
  /\ UNCHANGED <<session, quietVars>>

\* signIn up to its await: setLoading(true), signInWithPassword sent
signIn(t) ==
  /\ AuthPageShown /\ NoFormCall
  /\ auth' = [auth EXCEPT !.loading = TRUE]
  /\ calls' = calls \cup {Call("signIn", t, 0, "auth", "none", NoProfile)}
  /\ response' = NoResponse
  /\ alert' = NoAlert
  /\ UNCHANGED <<profiles, session, quietVars>>

\* signInWithPassword is answered: an error is rethrown after
\* setLoading(false); on success the client holds the session and emits
\* SIGNED_IN, and loading is left to the event's fetchProfile
SignInAnswered(c, ok) ==
  /\ c \in calls /\ c.op = "signIn"
  /\ IF ok /\ c.userId \in session.users
     THEN /\ FetchRoom
          /\ session' = [session EXCEPT !.user = c.userId]
          /\ LET h == onAuthStateChange(auth, calls \ {c}, c.userId)
             IN auth' = h.auth /\ calls' = h.calls
          /\ response' = Fulfilled("signIn", c.userId)
     ELSE /\ calls' = calls \ {c}
          /\ auth' = [auth EXCEPT !.loading = FALSE]
          /\ response' = Rejected("signIn", c.userId, "Invalid login credentials")
          /\ UNCHANGED session
  /\ alert' = NoAlert
  /\ UNCHANGED <<profiles, quietVars>>

\* the Layout with its Sign Out button is shown by AppContent: not loading,
\* a user and a profile
LayoutShown == ~auth.loading /\ auth.user # Null /\ auth.profile # NoProfile

\* handleSignOut, signOut up to its await: setUser(null), setProfile(null),
\* supabase.auth.signOut() sent (signingOut keeps a second click out)
signOut ==
  /\ LayoutShown
  /\ \A c \in calls : c.op # "signOut"
  /\ auth' = [auth EXCEPT !.user = Null, !.profile = NoProfile]
  /\ calls' = calls \cup {Call("signOut", auth.user, 0, "sent", "none", NoProfile)}
  /\ response' = NoResponse
  /\ alert' = NoAlert
  /\ UNCHANGED <<profiles, session, quietVars>>

\* what the promise of signOut ends with: an error is only logged and the
\* catch block does not rethrow
SignOutEnds(c, outcome) == Fulfilled("signOut", c.userId)

\* supabase.auth.signOut() ends.  "ok": the client drops its session and
\* hands SIGNED_OUT to the callback, then setLoading(false).  "error": the
\* error is logged, setLoading(false).  "throws": the catch block runs
\* setUser(null), setProfile(null), setLoading(false).
SignOutAnswered(c, outcome) ==
  /\ c \in calls /\ c.op = "signOut"
  /\ calls' = calls \ {c}
  /\ auth' = IF outcome = "error" THEN [auth EXCEPT !.loading = FALSE]
             ELSE [user |-> Null, profile |-> NoProfile, loading |-> FALSE]
  /\ session' = IF outcome = "ok" THEN [session EXCEPT !.user = Null] ELSE session
  /\ response' = SignOutEnds(c, outcome)
  /\ alert' = NoAlert
  /\ UNCHANGED <<profiles, quietVars>>

\* a variant without the test of the user
NoUserLoggedIn_Never(a) == FALSE

\* createMissingProfile and updateProfile: if (!user)
NoUserLoggedIn(a) == a.user = Null

\* createMissingProfile(name, userType) up to its await.  Without a user it
\* throws Error('No user logged in') before anything else; with one
\* setLoading(true) and the INSERT of the profile with id user.id is sent.
createMissingProfile(name, userType) ==
  /\ \A c \in calls : c.op # "createMissingProfile"
  /\ IF NoUserLoggedIn(auth)
     THEN /\ response' = Rejected("createMissingProfile", auth.user, "No user logged in")
          /\ UNCHANGED <<auth, calls>>
     ELSE /\ auth' = [auth EXCEPT !.loading = TRUE]
          /\ calls' = calls \cup {Call("createMissingProfile", auth.user, 0, "insert", "none",
                                       [id |-> auth.user, user_type |-> userType,
                                        name |-> name])}
          /\ response' = NoResponse
  /\ alert' = NoAlert
  /\ UNCHANGED <<profiles, session, quietVars>>

\* the INSERT .select().single() of createMissingProfile is answered: the
\* row is stored and setProfile(data), or the error is thrown again; finally
\* setLoading(false)
CreateProfileAnswered(c, ok) ==
  /\ c \in calls /\ c.op = "createMissingProfile"
  /\ calls' = calls \ {c}
  /\ IF /\ ok /\ c.userId \in Actors
        /\ UsersCanCreateOwn_Check(session.user, c.data) /\ ~HasProfile(c.userId)
     THEN /\ profiles' = [profiles EXCEPT ![c.userId] = c.data]
          /\ auth' = [auth EXCEPT !.profile = c.data, !.loading = FALSE]
          /\ response' = Fulfilled("createMissingProfile", c.userId)
     ELSE /\ auth' = [auth EXCEPT !.loading = FALSE]
          /\ response' = Rejected("createMissingProfile", c.userId, "Failed to create profile")
          /\ UNCHANGED profiles
  /\ alert' = NoAlert
  /\ UNCHANGED <<session, quietVars>>

\* updateProfile(updates) of the AuthProvider up to its await.  Without a
\* user it throws Error('No user logged in'); with one the UPDATE
\* .eq('id', user.id) is sent.
updateProfileCalled(updates) ==
  /\ \A c \in calls : c.op # "updateProfile"
  /\ IF NoUserLoggedIn(auth)
     THEN /\ response' = Rejected("updateProfile", auth.user, "No user logged in")
          /\ UNCHANGED calls
     ELSE /\ calls' = calls \cup {Call("updateProfile", auth.user, 0, "update", "none",
                                       IF auth.user \in Actors /\ HasProfile(auth.user)
                                       THEN ApplyProfileSet(profiles[auth.user], updates)
                                       ELSE NoProfile)}
          /\ response' = NoResponse
  /\ alert' = NoAlert
  /\ UNCHANGED <<auth, profiles, session, quietVars>>

\* the UPDATE of updateProfile is answered: an error is thrown again;
\* otherwise the row the policies let through is stored and
\* fetchProfile(user.id) is awaited, with whose end the promise is fulfilled
UpdateProfileAnswered(c, ok) ==
  /\ c \in calls /\ c.op = "updateProfile"
  /\ IF ok /\ c.userId \in Actors
     THEN /\ FetchRoom
          /\ profiles' = IF HasProfile(c.userId)
                            /\ UsersCanUpdateOwn_Using(session.user, profiles[c.userId])
                            /\ UsersCanUpdateOwn_Check(session.user, c.data)
                            /\ c.data.user_type \in UserTypes
                         THEN [profiles EXCEPT ![c.userId] = c.data] ELSE profiles
          /\ calls' = StartFetch(calls \ {c}, c.userId, 0)
          /\ UNCHANGED response
     ELSE /\ calls' = calls \ {c}
          /\ response' = Rejected("updateProfile", c.userId, "Failed to fetch")
          /\ UNCHANGED profiles
  /\ alert' = NoAlert
  /\ UNCHANGED <<auth, session, quietVars>>

\* ------------------------------------------------------------------ routes

\* the paths of the Routes in AppContent
Paths == {"/", "/donate", "/requests", "/pickups", "/auth"}

\* a variant that lets every signed-in user through
ProtectedRoute_NoRoleTest(userType, children) ==
  IF auth.loading THEN "Spinner"
  ELSE IF auth.user = Null THEN "Navigate to /auth"
  ELSE children

\* ProtectedRoute: the spinner while loading, <Navigate to="/auth"> without
\* a user, <Navigate to="/"> when profile?.user_type differs from userType,
\* the children otherwise
ProtectedRoute(userType, children) ==
  IF auth.loading THEN "Spinner"
  ELSE IF auth.user = Null THEN "Navigate to /auth"
  ELSE IF auth.profile.user_type # userType THEN "Navigate to /"
  ELSE children

\* what AppContent renders at the browser's location
AppContent ==
  IF auth.loading THEN "Loading application"
  ELSE IF auth.user = Null THEN "Auth"
  ELSE IF auth.profile = NoProfile THEN "ProfileSetup"
  ELSE CASE location = "/" -> "Dashboard"
         [] location = "/donate" -> ProtectedRoute("donor", "DonateSurplus")
         [] location = "/requests" -> ProtectedRoute("shelter", "IncomingRequests")
         [] location = "/pickups" -> ProtectedRoute("volunteer", "MyPickups")
         [] location = "/auth" -> "Navigate to /"

\* the user opens a path of the application
navigate(path) ==
  /\ location' = path
  /\ alert' = NoAlert
  /\ UNCHANGED <<donations, seq, inflight, feed, notifications, clock, lists, authVars,
                 formVars, dashboard, auth, calls, session, response>>

\* a rendered <Navigate to=... replace /> changes the location
Redirect ==
  /\ AppContent \in {"Navigate to /", "Navigate to /auth"}
  /\ location' = IF AppContent = "Navigate to /" THEN "/" ELSE "/auth"
  /\ alert' = NoAlert
  /\ UNCHANGED <<donations, seq, inflight, feed, notifications, clock, lists, authVars,
                 formVars, dashboard, auth, calls, session, response>>

\* ------------------------------------------------------------ direct DELETE

\* a variant with a policy FOR DELETE that lets the donor remove its donation
DeleteAllowed_ByDonor(uid, row) == uid = row.donor_id

\* The migrations enable row level security on donations and create policies
\* FOR INSERT, SELECT and UPDATE only: with no policy FOR DELETE no row
\* passes for any actor.
DeleteAllowed(uid, row) == FALSE

\* DELETE FROM donations WHERE id = d sent by u through the API: the rows the
\* policies let u delete are removed; the answer carries no error
DirectDelete(u, d) ==
  /\ d \in DonationIds
  /\ donations' = IF DeleteAllowed(u, donations[d])
                  THEN [j \in 1..(Len(donations) - 1) |->
                          IF j < d THEN donations[j] ELSE donations[j + 1]]
                  ELSE donations
  /\ response' = [user |-> u, op |-> "delete", id |-> d, target |-> Null,
                  rows |-> {}, error |-> FALSE, message |-> ""]
  /\ alert' = NoAlert
  /\ UNCHANGED <<seq, inflight, feed, notifications, clock, lists, authVars,
                 formVars, dashboard, auth, calls, session, location>>

\* ------------------------------------------------------------------- Next

Next ==
  \/ \E u \in Actors : fillForm(u)
  \/ \E u \in Actors : handleSubmit(u)
  \/ \E u \in Actors : \E d \in DonationIds : acceptDonation(u, d)
  \/ \E u \in Actors : \E d \in DonationIds : completeDonation(u, d)
  \/ \E u \in Actors : ApplyUpdate(u)
  \/ \E u \in Actors : RequestFails(u)
  \/ \E u \in DirectWriters : \E d \in DonationIds : \E set \in DirectSets(u) : DirectUpdate(u, d, set)
  \/ \E u \in Subscribers : handleDonationChange(u)

Spec == Init /\ [][Next]_vars

\* the same system when every write goes through the pages
PagesNext ==
  \/ \E u \in Actors : fillForm(u)
  \/ \E u \in Actors : handleSubmit(u)
  \/ \E u \in Actors : \E d \in DonationIds : acceptDonation(u, d)
  \/ \E u \in Actors : \E d \in DonationIds : completeDonation(u, d)
  \/ \E u \in Actors : ApplyUpdate(u)
  \/ \E u \in Actors : RequestFails(u)
  \/ \E u \in Subscribers : handleDonationChange(u)

PagesSpec == Init /\ [][PagesNext]_vars

\* the system with every write an authenticated actor can send to the
\* donations table: the pages, direct UPDATEs and direct INSERTs
ApiNext ==
  \/ PagesNext
  \/ \E u \in DirectWriters : \E d \in DonationIds : \E set \in DirectSets(u) \cup ApiSets(u) :
        DirectUpdate(u, d, set)
  \/ \E u \in Actors : \E row \in ApiRows(u) : DirectInsert(u, row)

ApiSpec == Init /\ [][ApiNext]_vars

\* the Donate page, input by input
FormInputs ==
  {<<"food_type", "">>, <<"food_type", "Bakery Items">>, <<"quantity", "">>,
   <<"quantity", "5 trays">>, <<"notes", "">>, <<"notes", "ring the bell">>}

\* what the donor types into the picker: nothing, two letters, the start of
\* a suggested street, an address that is not among the suggestions
TypedAddresses == {"", "78", "789 pine", "5 Elm Court"}

FormNext ==
  \/ \E in \in FormInputs : handleInputChange(in[1], in[2])
  \/ \E value \in TypedAddresses : handleAddressChange(value)
  \/ \E i \in 1..Len(mockSuggestions) : selectSuggestion(mockSuggestions[i])
  \/ \E u \in Actors : handleSubmit(u)
  \/ \E u \in Subscribers : handleDonationChange(u)

FormSpec == Init /\ [][FormNext]_vars

\* the profiles table under the writes of its owners
ProfileNext ==
  \/ \E u \in ProfileWriters : \E updates \in ProfileUpdates : updateProfile(u, updates)
  \/ \E u \in ProfileWriters : \E t \in ProfileWriters : \E updates \in ProfileUpdates :
        DirectProfileUpdate(u, t, updates)

ProfileSpec == Init /\ [][ProfileNext]_vars

\* the rows a donations table can hold, as far as the SELECT policies look
\* at them (with the timestamps the trigger gives, and the content of a
\* filled form)
StoredRows ==
  LET f == [donor_name |-> "D1", food_type |-> "Bakery Items",
            quantity |-> "5 trays", pickup_location |-> mockSuggestions[1],
            notes |-> ""]
  IN { [CreateRow(dn, f, NoCoordinates) EXCEPT
          !.status = st, !.shelter_id = sh,
          !.accepted_at = IF st \in {"accepted", "completed"} THEN Now ELSE NullTime,
          !.completed_at = IF st = "completed" THEN Now ELSE NullTime] :
         st \in Statuses, dn \in Actors, sh \in {Null} \cup Shelters }

\* a ledger that holds MaxDonations rows, and the reads of it
PolicyInit ==
  /\ donations \in [1..MaxDonations -> StoredRows]
  /\ seq = 0
  /\ inflight = [a \in Actors |-> NoCall]
  /\ alert = NoAlert
  /\ feed = << >>
  /\ notifications = [a \in Actors |-> << >>]
  /\ clock = [a \in Actors |-> 0]
  /\ profiles = [a \in Actors |-> [id |-> a, user_type |-> SignedUpAs(a), name |-> a]]
  /\ profile = profiles
  /\ formData = ResetForm("D1")
  /\ coordinates = NoCoordinates
  /\ address = Empty
  /\ suggestions = << >>
  /\ showSuggestions = FALSE
  /\ submittedDonation = NoRow
  /\ dashboard = NoDashboard
  /\ ViewInit

PolicyNext == \E u \in Actors : fetchDashboardData(u)

PolicySpec == PolicyInit /\ [][PolicyNext]_vars

\* a ledger with one accepted donation whose subscribers D1 and V1 have got
\* notifications before: each list holds none, nine or ten
PastEvent ==
  [eventType |-> "UPDATE", id |-> 1,
   new |-> CHOOSE r \in StoredRows :
             r.status = "accepted" /\ r.donor_id = "D1" /\ r.shelter_id = "S1"]

PastList(u, k) == [i \in 1..k |-> NotificationFor(u, PastEvent, k - i + 1)]

Prefilled == {0, 9, 10}

NotifyInit ==
  /\ donations = <<PastEvent.new>>
  /\ seq = 0
  /\ inflight = [a \in Actors |-> NoCall]
  /\ alert = NoAlert
  /\ feed = << >>
  /\ profiles = [a \in Actors |-> [id |-> a, user_type |-> SignedUpAs(a), name |-> a]]
  /\ profile = profiles
  /\ \E kd \in Prefilled : \E kv \in Prefilled :
       /\ clock = [a \in Actors |-> IF a = "D1" THEN kd ELSE IF a = "V1" THEN kv ELSE 0]
       /\ notifications = [a \in Actors |-> PastList(a, clock[a])]
  /\ formData = ResetForm("D1")
  /\ coordinates = NoCoordinates
  /\ address = Empty
  /\ suggestions = << >>
  /\ showSuggestions = FALSE
  /\ submittedDonation = NoRow
  /\ dashboard = NoDashboard
  /\ ViewInit

NotifyNext ==
  \/ \E u \in DirectWriters : \E d \in DonationIds : \E set \in DirectSets(u) : DirectUpdate(u, d, set)
  \/ \E u \in Subscribers : handleDonationChange(u)
  \/ \E u \in Subscribers : \E id \in ListedIds(u) : markAsRead(u, id)
  \/ \E u \in Subscribers : \E id \in ListedIds(u) : clearNotification(u, id)

NotifySpec == NotifyInit /\ [][NotifyNext]_vars

\* the list pages of S2 (IncomingRequests) and V1 (MyPickups) followed from
\* their mount, while donations are created, accepted and completed
ListPages == {"S2", "V1"}

\* the card of donation d is in the list u's page shows
Listed(u, d) == \E e \in lists[u].donations : e.id = d

\* a ledger that holds one pending donation of D1, before any page is open
ListInit ==
  /\ donations = <<CHOOSE r \in StoredRows :
                     r.status = "pending" /\ r.donor_id = "D1" /\ r.shelter_id = Null>>
  /\ seq = 0
  /\ inflight = [a \in Actors |-> NoCall]
  /\ alert = NoAlert
  /\ feed = << >>
  /\ notifications = [a \in Actors |-> << >>]
  /\ clock = [a \in Actors |-> 0]
  /\ profiles = [a \in Actors |-> [id |-> a, user_type |-> SignedUpAs(a), name |-> a]]
  /\ profile = profiles
  /\ formData = ResetForm("D1")
  /\ coordinates = NoCoordinates
  /\ address = Empty
  /\ suggestions = << >>
  /\ showSuggestions = FALSE
  /\ submittedDonation = NoRow
  /\ dashboard = NoDashboard
  /\ ViewInit

ListNext ==
  \/ \E u \in Actors : \E d \in DonationIds :
        (lists[u].mounted => Listed(u, d)) /\ acceptDonation(u, d)
  \/ \E u \in Actors : \E d \in DonationIds :
        (lists[u].mounted => Listed(u, d)) /\ completeDonation(u, d)
  \/ \E u \in Actors : ApplyUpdate(u)
  \/ \E u \in ListPages : mountPage(u)
  \/ \E u \in ListPages : unmountPage(u)
  \/ \E u \in ListPages : SubscriptionJoined(u)
  \/ \E u \in ListPages : \E i \in 1..MaxFetches : FetchReads(u, i)
  \/ \E u \in ListPages : \E i \in 1..MaxFetches : FetchReturns(u, i)
  \/ \E u \in ListPages : handleListChange(u)
  \/ \E u \in Subscribers : handleDonationChange(u)

ListSpec == ListInit /\ [][ListNext]_vars

\* a ledger that holds up to MaxDonations rows of every shape, under every
\* statement an authenticated actor can send to the donations table
LedgerInit ==
  /\ \E k \in 0..MaxDonations : donations \in [1..k -> StoredRows]
  /\ seq = 0
  /\ inflight = [a \in Actors |-> NoCall]
  /\ alert = NoAlert
  /\ feed = << >>
  /\ notifications = [a \in Actors |-> << >>]
  /\ clock = [a \in Actors |-> 0]
  /\ profiles = [a \in Actors |-> [id |-> a, user_type |-> SignedUpAs(a), name |-> a]]
  /\ profile = profiles
  /\ formData = ResetForm("D1")
  /\ coordinates = NoCoordinates
  /\ address = Empty
  /\ suggestions = << >>
  /\ showSuggestions = FALSE
  /\ submittedDonation = NoRow
  /\ dashboard = NoDashboard
  /\ ViewInit

LedgerNext ==
  \/ \E u \in Actors : \E d \in DonationIds : DirectDelete(u, d)
  \/ \E u \in DirectWriters : \E d \in DonationIds : \E set \in DirectSets(u) \cup ApiSets(u) :
        DirectUpdate(u, d, set)
  \/ \E u \in Actors : \E row \in ApiRows(u) : DirectInsert(u, row)

LedgerSpec == LedgerInit /\ [][LedgerNext]_vars

\* the profiles table under every statement its users can send, while V2 has
\* signed up and has no profile row yet
NewUsers == {"V2"}
ProfileApiUsers == {"S1", "V1", "V2"}

ProfileApiInit ==
  /\ donations = << >>
  /\ seq = 0
  /\ inflight = [a \in Actors |-> NoCall]
  /\ alert = NoAlert
  /\ feed = << >>
  /\ notifications = [a \in Actors |-> << >>]
  /\ clock = [a \in Actors |-> 0]
  /\ profiles = [a \in Actors |-> IF a \in NewUsers THEN NoProfile
                                  ELSE [id |-> a, user_type |-> SignedUpAs(a), name |-> a]]
  /\ profile = profiles
  /\ formData = ResetForm("D1")
  /\ coordinates = NoCoordinates
  /\ address = Empty
  /\ suggestions = << >>
  /\ showSuggestions = FALSE
  /\ submittedDonation = NoRow
  /\ dashboard = NoDashboard
  /\ ViewInit

ProfileApiNext ==
  \/ \E u \in ProfileApiUsers : \E t \in ProfileApiUsers : DirectProfileSelect(u, t)
  \/ \E u \in ProfileApiUsers : \E t \in ProfileApiUsers : \E ty \in UserTypes :
        DirectProfileInsert(u, t, ty)
  \/ \E u \in ProfileApiUsers : \E t \in ProfileApiUsers : \E updates \in ProfileUpdates :
        DirectProfileUpdate(u, t, updates)

ProfileApiSpec == ProfileApiInit /\ [][ProfileApiNext]_vars

\* the AuthProvider of a browser from its mount on, with or without a stored
\* session of S1, while V2 is not registered yet
AuthInit ==
  /\ donations = << >>
  /\ seq = 0
  /\ inflight = [a \in Actors |-> NoCall]
  /\ alert = NoAlert
  /\ feed = << >>
  /\ notifications = [a \in Actors |-> << >>]
  /\ clock = [a \in Actors |-> 0]
  /\ profiles = [a \in Actors |-> IF a \in NewUsers THEN NoProfile
                                  ELSE [id |-> a, user_type |-> SignedUpAs(a), name |-> a]]
  /\ profile = profiles
  /\ formData = ResetForm("D1")
  /\ coordinates = NoCoordinates
  /\ address = Empty
  /\ suggestions = << >>
  /\ showSuggestions = FALSE
  /\ submittedDonation = NoRow
  /\ dashboard = NoDashboard
  /\ lists = [a \in Actors |-> NoList]
  /\ auth = [user |-> Null, profile |-> NoProfile, loading |-> TRUE]
  /\ calls = {Call("initializeAuth", Null, 0, "connect", "none", NoProfile)}
  /\ \E u \in {Null, "S1"} : session = [user |-> u, users |-> Actors \ NewUsers]
  /\ response = NoResponse
  /\ location = "/"

AuthNext ==
  \/ \E ok \in BOOLEAN : InitConnectionTest(ok)
  \/ \E ok \in BOOLEAN : InitGetSession(ok)
  \/ SessionEvent
  \/ \E c \in calls : \E ok \in BOOLEAN : FetchProfileAnswered(c, ok)
  \/ \E c \in calls : FetchProfileResolved(c)
  \/ \E c \in calls : \E m \in {"Profile fetch timeout", "Failed to fetch"} :
        FetchProfileThrows(c, m)
  \/ \E c \in calls : FetchProfileRetry(c)
  \/ \E t \in AuthUsers : signUp(t, "volunteer")
  \/ \E c \in calls : \E ok \in BOOLEAN : SignUpAuthAnswered(c, ok)
  \/ \E c \in calls : \E ok \in BOOLEAN : SignUpInsertAnswered(c, ok)
  \/ \E t \in AuthUsers : signIn(t)
  \/ \E c \in calls : \E ok \in BOOLEAN : SignInAnswered(c, ok)
  \/ signOut
  \/ \E c \in calls : \E o \in {"ok", "error", "throws"} : SignOutAnswered(c, o)

AuthSpec == AuthInit /\ [][AuthNext]_vars

\* the routes under every user, profile and loading state of the AuthProvider
RouteInit ==
  /\ donations = << >>
  /\ seq = 0
  /\ inflight = [a \in Actors |-> NoCall]
  /\ alert = NoAlert
  /\ feed = << >>
  /\ notifications = [a \in Actors |-> << >>]
  /\ clock = [a \in Actors |-> 0]
  /\ profiles = [a \in Actors |-> [id |-> a, user_type |-> SignedUpAs(a), name |-> a]]
  /\ profile = profiles
  /\ formData = ResetForm("D1")
  /\ coordinates = NoCoordinates
  /\ address = Empty
  /\ suggestions = << >>
  /\ showSuggestions = FALSE
  /\ submittedDonation = NoRow
  /\ dashboard = NoDashboard
  /\ lists = [a \in Actors |-> NoList]
  /\ auth \in [user : {Null} \cup Actors,
               profile : {NoProfile} \cup {profiles[a] : a \in Actors},
               loading : BOOLEAN]
  /\ calls = {}
  /\ session = NoSession
  /\ response = NoResponse
  /\ location = "/"

RouteNext ==
  \/ \E path \in Paths : navigate(path)
  \/ Redirect

RouteSpec == RouteInit /\ [][RouteNext]_vars

\* one call of fetchProfile(userId) from its start to its end: for either
\* user, with or without a row in profiles, whatever the profile and loading
\* states were when it was called
FetchInit ==
  /\ donations = << >>
  /\ seq = 0
  /\ inflight = [a \in Actors |-> NoCall]
  /\ alert = NoAlert
  /\ feed = << >>
  /\ notifications = [a \in Actors |-> << >>]
  /\ clock = [a \in Actors |-> 0]
  /\ \E u \in AuthUsers :
       /\ \E row \in {NoProfile} \cup {[id |-> u, user_type |-> ty, name |-> u] : ty \in UserTypes} :
            profiles = [a \in Actors |-> IF a = u THEN row
                                        ELSE [id |-> a, user_type |-> SignedUpAs(a), name |-> a]]
       /\ \E p \in {NoProfile, profiles[u]} : \E l \in BOOLEAN :
            auth = [user |-> u, profile |-> p, loading |-> l]
       /\ calls = StartFetch({}, u, 0)
       /\ session = [user |-> u, users |-> Actors]
  /\ profile = [a \in Actors |-> [id |-> a, user_type |-> SignedUpAs(a), name |-> a]]
  /\ formData = ResetForm("D1")
  /\ coordinates = NoCoordinates
  /\ address = Empty
  /\ suggestions = << >>
  /\ showSuggestions = FALSE
  /\ submittedDonation = NoRow
  /\ dashboard = NoDashboard
  /\ lists = [a \in Actors |-> NoList]
  /\ response = NoResponse
  /\ location = "/"

FetchNext ==
  \/ \E c \in calls : \E ok \in BOOLEAN : FetchProfileAnswered(c, ok)
  \/ \E c \in calls : FetchProfileResolved(c)
  \/ \E c \in calls : \E m \in {"Profile fetch timeout", "Failed to fetch"} :
        FetchProfileThrows(c, m)
  \/ \E c \in calls : FetchProfileRetry(c)

\* The query is answered or the 60 s timer fires, the 2 s timer fires, and
\* the event loop runs the continuation of an await that has settled.
FetchSpec == FetchInit /\ [][FetchNext]_vars /\ WF_vars(FetchNext)

\* the Auth page of a browser without a session: S1 is registered, with or
\* without a row in profiles
SignInInit ==
  /\ donations = << >>
  /\ seq = 0
  /\ inflight = [a \in Actors |-> NoCall]
  /\ alert = NoAlert
  /\ feed = << >>
  /\ notifications = [a \in Actors |-> << >>]
  /\ clock = [a \in Actors |-> 0]
  /\ \E row \in {NoProfile, [id |-> "S1", user_type |-> "shelter", name |-> "S1"]} :
       profiles = [a \in Actors |-> IF a = "S1" THEN row
                                   ELSE [id |-> a, user_type |-> SignedUpAs(a), name |-> a]]
  /\ profile = [a \in Actors |-> [id |-> a, user_type |-> SignedUpAs(a), name |-> a]]
  /\ formData = ResetForm("D1")
  /\ coordinates = NoCoordinates
  /\ address = Empty
  /\ suggestions = << >>
  /\ showSuggestions = FALSE
  /\ submittedDonation = NoRow
  /\ dashboard = NoDashboard
  /\ lists = [a \in Actors |-> NoList]
  /\ auth = [user |-> Null, profile |-> NoProfile, loading |-> FALSE]
  /\ calls = {}
  /\ session = NoSession
  /\ response = NoResponse
  /\ location = "/"

\* what the backend and the timers do to the calls in flight
SignInAnswers ==
  \/ \E c \in calls : \E ok \in BOOLEAN : SignInAnswered(c, ok)
  \/ \E c \in calls : \E ok \in BOOLEAN : FetchProfileAnswered(c, ok)
  \/ \E c \in calls : FetchProfileResolved(c)
  \/ \E c \in calls : \E m \in {"Profile fetch timeout", "Failed to fetch"} :
        FetchProfileThrows(c, m)
  \/ \E c \in calls : FetchProfileRetry(c)
  \/ \E c \in calls : \E o \in {"ok", "error", "throws"} : SignOutAnswered(c, o)

SignInNext ==
  \/ signIn("S1")
  \/ SessionEvent
  \/ signOut
  \/ SignInAnswers

\* Every request is answered or fails, the 60 s and the 2 s timers fire, and
\* the event loop runs the continuation of an await that has settled.
SignInFairness ==
  /\ WF_vars(\E c \in calls : \E ok \in BOOLEAN : SignInAnswered(c, ok))
  /\ WF_vars(\E c \in calls : \/ \E ok \in BOOLEAN : FetchProfileAnswered(c, ok)
                               \/ FetchProfileThrows(c, "Profile fetch timeout"))
  /\ WF_vars(\E c \in calls : \/ FetchProfileResolved(c)
                               \/ FetchProfileThrows(c, "Failed to fetch"))
  /\ WF_vars(\E c \in calls : FetchProfileRetry(c))
  /\ WF_vars(\E c \in calls : \E o \in {"ok", "error", "throws"} : SignOutAnswered(c, o))

SignInSpec == SignInInit /\ [][SignInNext]_vars /\ SignInFairness

\* createMissingProfile and updateProfile called in every state of the
\* AuthProvider: no user, or S1 or V2 signed in, V2 without a row in profiles
ProfileCallInit ==
  /\ donations = << >>
  /\ seq = 0
  /\ inflight = [a \in Actors |-> NoCall]
  /\ alert = NoAlert
  /\ feed = << >>
  /\ notifications = [a \in Actors |-> << >>]
  /\ clock = [a \in Actors |-> 0]
  /\ profiles = [a \in Actors |-> IF a \in NewUsers THEN NoProfile
                                  ELSE [id |-> a, user_type |-> SignedUpAs(a), name |-> a]]
  /\ profile = [a \in Actors |-> [id |-> a, user_type |-> SignedUpAs(a), name |-> a]]
  /\ formData = ResetForm("D1")
  /\ coordinates = NoCoordinates
  /\ address = Empty
  /\ suggestions = << >>
  /\ showSuggestions = FALSE
  /\ submittedDonation = NoRow
  /\ dashboard = NoDashboard
  /\ lists = [a \in Actors |-> NoList]
  /\ \E u \in {Null} \cup AuthUsers : \E l \in BOOLEAN :
       /\ \E p \in {NoProfile} \cup (IF u = Null THEN {} ELSE {profiles[u]}) :
            auth = [user |-> u, profile |-> p, loading |-> l]
       /\ session = [user |-> u, users |-> Actors]
  /\ calls = {}
  /\ response = NoResponse
  /\ location = "/"

\* what is entered in ProfileSetup, and the updates of updateProfile
SetupInputs == [name : {"V2"}, userType : {"donor", "volunteer"}]
SetupUpdates == {[name |-> "Renamed"]}

ProfileCallNext ==
  \/ \E in \in SetupInputs : createMissingProfile(in.name, in.userType)
  \/ \E c \in calls : \E ok \in BOOLEAN : CreateProfileAnswered(c, ok)
  \/ \E updates \in SetupUpdates : updateProfileCalled(updates)
  \/ \E c \in calls : \E ok \in BOOLEAN : UpdateProfileAnswered(c, ok)
  \/ \E c \in calls : \E ok \in BOOLEAN : FetchProfileAnswered(c, ok)
  \/ \E c \in calls : FetchProfileResolved(c)
  \/ \E c \in calls : \E m \in {"Profile fetch timeout", "Failed to fetch"} :
        FetchProfileThrows(c, m)
  \/ \E c \in calls : FetchProfileRetry(c)

ProfileCallSpec == ProfileCallInit /\ [][ProfileCallNext]_vars

\* the Donate form with its food_type select and the 'AI Classify' button
ClassifyNext ==
  \/ \E i \in 1..Len(foodTypeOptions) : handleInputChange("food_type", foodTypeOptions[i])
  \/ \E in \in FormInputs : handleInputChange(in[1], in[2])
  \/ \E value \in TypedAddresses : handleAddressChange(value)
  \/ classifyFood

ClassifySpec == Init /\ [][ClassifyNext]_vars

\* ================================================================ claims

\* the step in which the ledger or the network answers u's pending call
Answered(u, op) == inflight[u].op = op /\ inflight'[u] = NoCall

\* C1: of the Accept writes issued for a donation, in any interleaving, only
\* one changes the record: an Accept changes the row only if the stored status
\* is pending, it then stores the caller in shelter_id, and a row that has
\* left pending never returns to it, so no later Accept overwrites it.
C1_SingleAcceptWins ==
  [][ /\ \A u \in Actors :
           (Answered(u, "accept") /\ donations' # donations) =>
              LET d == inflight[u].id
              IN /\ donations[d].status = "pending"
                 /\ donations'[d].status = "accepted"
                 /\ donations'[d].shelter_id = u
                 /\ \A e \in DonationIds \ {d} : donations'[e] = donations[e]
      /\ \A d \in DonationIds :
           donations[d].status # "pending" => donations'[d].status # "pending"
    ]_vars

\* C1 witness: S2's Accept was answered after S1's had been applied, and the
\* row keeps S1
C1_Witness ==
  /\ alert.user = "S2" /\ alert.kind = "accepted"
  /\ donations[alert.id].status = "accepted"
  /\ donations[alert.id].shelter_id = "S1"

\* C2: a shelter whose Accept did not change the donation gets the failure
\* path; the success alert goes only to the caller stored in shelter_id.
C2_LoserGetsConflict ==
  alert.kind = "accepted" => donations[alert.id].shelter_id = alert.user

\* C3: a Complete call changes a donation only if the stored status is
\* accepted when the write is applied; on a pending or completed row status,
\* volunteer_id and completed_at keep their values.
C3_CompleteOnlyFromAccepted ==
  [][ \A u \in Actors :
        Answered(u, "complete") =>
          LET d == inflight[u].id
          IN /\ donations' # donations =>
                  /\ donations[d].status = "accepted"
                  /\ donations'[d].status = "completed"
                  /\ donations'[d].volunteer_id = u
             /\ donations[d].status # "accepted" =>
                  /\ donations'[d].status = donations[d].status
                  /\ donations'[d].volunteer_id = donations[d].volunteer_id
                  /\ donations'[d].completed_at = donations[d].completed_at
    ]_vars

\* C3 witness: V1's Complete was answered on a row that V2 had completed
\* before, and the row keeps V2's completion
C3_Witness ==
  /\ alert.user = "V1" /\ alert.kind = "completed"
  /\ donations[alert.id].status = "completed"
  /\ donations[alert.id].volunteer_id = "V2"
  /\ donations[alert.id].completed_at # NullTime

\* C4: a donation's status changes only by pending -> accepted and
\* accepted -> completed.
C4_ForwardOnly ==
  [][ \A d \in DonationIds :
        donations'[d].status # donations[d].status =>
          \/ donations[d].status = "pending" /\ donations'[d].status = "accepted"
          \/ donations[d].status = "accepted" /\ donations'[d].status = "completed"
    ]_vars

\* what section 4.1 allows as a write: accept by a shelter on a pending row,
\* binding the actor; complete by a volunteer on an accepted row
AcceptPredicate(u, old, new) ==
  /\ user_type(u) = "shelter" /\ old.status = "pending"
  /\ new.status = "accepted" /\ new.shelter_id = u

CompletePredicate(u, old, new) ==
  /\ user_type(u) = "volunteer" /\ old.status = "accepted"
  /\ new.status = "completed"

\* C5: an UPDATE sent directly to the table is permitted only if it matches
\* the accept predicate or the complete predicate; every other one is denied.
C5_OnlyAcceptOrComplete ==
  \A u \in Actors : \A d \in DonationIds : \A set \in DirectSets(u) :
    LET res == UpdateResult(u, donations[d], set)
    IN res.rows = 1 =>
         \/ AcceptPredicate(u, donations[d], res.row)
         \/ CompletePredicate(u, donations[d], res.row)

\* the 'Donation Completed!' notifications for donation d that the donor has
\* got or is about to get
CompletedPending(d) ==
  Cardinality({i \in 1..Len(feed) :
     /\ feed[i].to = donations[d].donor_id /\ feed[i].id = d
     /\ feed[i].eventType = "UPDATE" /\ feed[i].new.status = "completed"})

CompletedShown(d) ==
  LET list == notifications[donations[d].donor_id]
  IN Cardinality({i \in 1..Len(list) : list[i].id = <<"completed", d>>})

\* C6: however many volunteers call Complete on an accepted donation, one
\* write is applied, one update event with status completed is emitted and
\* the donor gets one 'Donation Completed!' notification for the donation.
C6_OneCompletedNotice ==
  \A d \in DonationIds :
    /\ CompletedPending(d) + CompletedShown(d) <= 1
    /\ donations[d].status = "completed" <=> CompletedPending(d) + CompletedShown(d) = 1

\* C6 witness: V1 and V2 both called Complete on the accepted donation, V1's
\* write was applied, V2's was answered after it, and the donor's list holds
\* the one notification
C6_Witness ==
  /\ alert.user = "V2" /\ alert.kind = "completed"
  /\ donations[alert.id].volunteer_id = "V1"
  /\ donations[alert.id].shelter_id # Null
  /\ CompletedShown(alert.id) = 1

\* C7: a Complete call on a donation that is still pending takes the failure
\* path and leaves the record unchanged.
C7_CompleteOnPendingFails ==
  [][ \A u \in Actors :
        (Answered(u, "complete") /\ donations[inflight[u].id].status = "pending") =>
           /\ alert'.kind = "complete_failed"
           /\ donations' = donations
    ]_vars

\* C8: accepted_at is non-null iff status is accepted or completed, and
\* completed_at is non-null iff status is completed.
C8_TimestampsMatchStatus ==
  \A d \in DonationIds :
    /\ donations[d].accepted_at # NullTime <=> donations[d].status \in {"accepted", "completed"}
    /\ donations[d].completed_at # NullTime <=> donations[d].status = "completed"

\* C9: shelter_id is null iff status is pending, and accepted_at is null iff
\* shelter_id is null.
C9_ShelterBoundIffLeftPending ==
  \A d \in DonationIds :
    /\ donations[d].shelter_id = Null <=> donations[d].status = "pending"
    /\ donations[d].accepted_at = NullTime <=> donations[d].shelter_id = Null

\* C10: shelter_id is set once, in the step to accepted, and volunteer_id is
\* set once, in the step to completed; neither changes afterwards, and
\* volunteer_id is non-null iff status is completed.
C10_BindingsSetOnce ==
  [][ \A d \in DonationIds :
        /\ donations'[d].shelter_id # donations[d].shelter_id =>
             /\ donations[d].shelter_id = Null
             /\ donations[d].status = "pending" /\ donations'[d].status = "accepted"
        /\ donations'[d].volunteer_id # donations[d].volunteer_id =>
             /\ donations[d].volunteer_id = Null
             /\ donations[d].status = "accepted" /\ donations'[d].status = "completed"
        /\ donations'[d].volunteer_id # Null <=> donations'[d].status = "completed"
    ]_vars

\* C11: no write changes a donation's donor_id or created_at after creation,
\* and Accept and Complete leave the content columns unchanged: Accept changes
\* only status, shelter_id and accepted_at, Complete only status, volunteer_id
\* and completed_at.
C11_Frame ==
  [][ \A d \in DonationIds :
        /\ donations'[d].donor_id = donations[d].donor_id
        /\ donations'[d].created_at = donations[d].created_at
        /\ \A u \in Actors :
             (Answered(u, "accept") /\ inflight[u].id = d) =>
                \A c \in Columns \ {"status", "shelter_id", "accepted_at"} :
                   donations'[d][c] = donations[d][c]
        /\ \A u \in Actors :
             (Answered(u, "complete") /\ inflight[u].id = d) =>
                \A c \in Columns \ {"status", "volunteer_id", "completed_at"} :
                   donations'[d][c] = donations[d][c]
    ]_vars

\* C12: every donation enters the ledger with status pending, with null
\* shelter_id, volunteer_id, accepted_at and completed_at, and with the
\* donor_id of an actor whose profile role is donor.
C12_EntersPendingByDonor ==
  [][ Len(donations') > Len(donations) =>
        LET r == donations'[Len(donations')]
        IN /\ r.status = "pending"
           /\ r.shelter_id = Null /\ r.volunteer_id = Null
           /\ r.accepted_at = NullTime /\ r.completed_at = NullTime
           /\ user_type(r.donor_id) = "donor"
    ]_vars

\* C13: every donation created through the Donate form has a non-empty
\* food_type, quantity and pickup_location.
C13_NoEmptyField ==
  \A d \in DonationIds :
    /\ donations[d].food_type # ""
    /\ donations[d].quantity # ""
    /\ donations[d].pickup_location # Empty

\* C14 as stated: the row read back after Create is pending, unbound, and
\* holds the donor name, category, quantity, address and notes of the form as
\* it was submitted.
C14_ReadBackAsSubmitted ==
  [][ Len(donations') > Len(donations) =>
        /\ submittedDonation' = donations'[Len(donations')]
        /\ submittedDonation'.status = "pending"
        /\ submittedDonation'.shelter_id = Null
        /\ submittedDonation'.accepted_at = NullTime
        /\ submittedDonation'.completed_at = NullTime
        /\ submittedDonation'.donor_name = formData.donor_name
        /\ submittedDonation'.food_type = formData.food_type
        /\ submittedDonation'.quantity = formData.quantity
        /\ submittedDonation'.pickup_location = formData.pickup_location
        /\ submittedDonation'.notes = formData.notes
    ]_vars

\* C14: the row read back after Create is pending, with null shelter_id,
\* accepted_at and completed_at, and holds the submitted donor name, category,
\* quantity and address; its notes are the submitted notes if these are not
\* empty, and null if they are.
C14_ReadBackNotesOrNull ==
  [][ Len(donations') > Len(donations) =>
        /\ submittedDonation' = donations'[Len(donations')]
        /\ submittedDonation'.status = "pending"
        /\ submittedDonation'.shelter_id = Null
        /\ submittedDonation'.accepted_at = NullTime
        /\ submittedDonation'.completed_at = NullTime
        /\ submittedDonation'.donor_name = formData.donor_name
        /\ submittedDonation'.food_type = formData.food_type
        /\ submittedDonation'.quantity = formData.quantity
        /\ submittedDonation'.pickup_location = formData.pickup_location
        /\ submittedDonation'.notes =
             IF formData.notes = "" THEN Null ELSE formData.notes
    ]_vars

\* C14 witness: a donation submitted with an address and without notes has
\* been read back, with null notes
C14_Witness ==
  /\ submittedDonation # NoRow
  /\ submittedDonation.pickup_location # Empty
  /\ submittedDonation.notes = Null
  /\ submittedDonation.status = "pending"

\* the read rule of section 4.1
ClaimedReadable(u, row) ==
  \/ u = row.donor_id
  \/ row.status = "pending"
  \/ (user_type(u) = "shelter" /\ u = row.shelter_id)
  \/ (user_type(u) = "volunteer" /\ row.status \in {"accepted", "completed"})

\* C15: a read returns a donation to an actor exactly when the actor is its
\* donor_id, or its status is pending, or the actor is a shelter and its
\* shelter_id, or the actor is a volunteer and the status is accepted or
\* completed.
C15_ReadExactly ==
  dashboard.user # Null =>
    \A d \in DonationIds :
      d \in dashboard.allDonations <=> ClaimedReadable(dashboard.user, donations[d])

\* C15 witness: shelter S2 has read the ledger and did not get a donation
\* that is accepted by S1
C15_Witness ==
  /\ dashboard.user = "S2"
  /\ \E d \in DonationIds :
       /\ donations[d].status = "accepted" /\ donations[d].shelter_id = "S1"
       /\ d \notin dashboard.allDonations

\* C16: no change event for a donation that is accepted by another shelter
\* is queued for a subscriber whose role is shelter.
C16_NoForeignAcceptedEvent ==
  \A i \in 1..Len(feed) :
    profile[feed[i].to].user_type = "shelter" =>
      ~(feed[i].new.status = "accepted" /\ feed[i].new.shelter_id # feed[i].to)

\* C17: a profile's user_type never changes.
C17_RoleNeverChanges ==
  [][ \A a \in Actors : profiles'[a].user_type = profiles[a].user_type ]_vars

\* the notification section 4.4 gives for a change event, by the kind of its id
ClaimedNotice(u, ev, prior) ==
  IF ev.eventType = "INSERT"
  THEN (IF profile[u].user_type = "shelter" THEN "donation" ELSE "none")
  ELSE IF prior = ev.new.status THEN "none"
  ELSE IF ev.new.status = "accepted" /\ ev.new.donor_id = u THEN "accepted"
  ELSE IF ev.new.status = "accepted" /\ profile[u].user_type = "volunteer" THEN "pickup"
  ELSE IF ev.new.status = "completed" /\ ev.new.donor_id = u THEN "completed"
  ELSE "none"

\* C18: for every change event that is published, handleDonationChange gives
\* its recipient the notification of section 4.4 and no other; an update that
\* does not change the status gives none.
C18_NoticeAsClaimed ==
  [][ \A i \in (Len(feed) + 1)..Len(feed') :
        LET ev == feed'[i]
            prior == IF ev.eventType = "INSERT" THEN "none" ELSE donations[ev.id].status
        IN NotificationFor(ev.to, ev, 0).id[1] = ClaimedNotice(ev.to, ev, prior)
    ]_vars

\* C19: a notification list holds at most 10 notifications, newest first, and
\* when a notification arrives at a list of 10 it is put in front and the
\* oldest one, the last, is the one dropped.
C19_TenNewestFirst ==
  [][ \A u \in Actors :
        LET old == notifications[u]
            new == notifications'[u]
        IN /\ Len(old) <= 10 /\ Len(new) <= 10
           /\ \A i \in 1..(Len(new) - 1) : new[i].timestamp >= new[i + 1].timestamp
           /\ (clock'[u] # clock[u] /\ Len(old) = 10) =>
                /\ Len(new) = 10
                /\ \A i \in 1..9 : new[i + 1] = old[i]
                /\ \A i \in 1..10 : old[10].timestamp <= old[i].timestamp
                /\ new[1].timestamp > old[1].timestamp
    ]_vars

\* C19 witness: an eleventh notification has arrived at V1's list, which
\* holds the ten newest
C19_Witness ==
  /\ clock["V1"] = 11
  /\ Len(notifications["V1"]) = 10
  /\ notifications["V1"][1].timestamp = 11
  /\ notifications["V1"][10].timestamp = 2

\* C20: the 'Donation Accepted!' notification in the donor's list names the
\* shelter that is bound in the donation's shelter_id.
C20_AcceptedNoticeNamesShelter ==
  \A u \in Actors : \A i \in 1..Len(notifications[u]) :
    LET n == notifications[u][i]
    IN n.id[1] = "accepted" =>
         LET sh == donations[n.id[2]].shelter_id
         IN \E k \in 1..Len(n.message) : n.message[k] \in {sh, profiles[sh].name}

\* the page of u is open, its channel is joined, and nothing it has asked for
\* or been told is outstanding: without a new write its list stays as it is
Settled(u) ==
  /\ lists[u].mounted /\ lists[u].subscribed
  /\ lists[u].events = 0 /\ lists[u].fetches = << >>
  /\ inflight[u] = NoCall

\* C21: after a list page has mounted, every committed transition is
\* reflected in its list once the page has nothing outstanding: the list
\* equals what a fresh full read returns.
C21_SettledListIsFresh ==
  \A u \in ListPages : Settled(u) => lists[u].donations = FreshRead(u)

\* C22: no reachable state holds a donation whose status is cancelled:
\* neither the pages nor any insert or update the row-level policies permit
\* to an authenticated actor produces it.
C22_NeverCancelled ==
  \A d \in DonationIds : donations[d].status # "cancelled"

\* C23: no operation available to an authenticated actor removes a donation
\* record: every step keeps every stored donation, and a completed donation
\* stays in the ledger in state completed.
C23_NoRecordRemoved ==
  [][/\ Len(donations') >= Len(donations)
     /\ \A d \in DonationIds :
          donations[d].status = "completed" => donations'[d].status = "completed"]_vars

\* a DELETE aimed at a completed donation has been answered and the donation
\* is there, completed
C23_Witness ==
  /\ response.op = "delete"
  /\ response.id \in DonationIds
  /\ donations[response.id].status = "completed"
  /\ response.user = donations[response.id].donor_id

\* C24: an authenticated user can read, insert and update only the profile
\* row whose id equals their own identity: a statement changes or creates a
\* row of profiles only if its sender is the row's id, and a read returns
\* only the reader's own row.
C24_OwnProfileOnly ==
  [][/\ \A t \in Actors : profiles'[t] # profiles[t] => response'.user = t
     /\ \A r \in response'.rows : r.id = response'.user]_vars

\* V2 has created its profile, after which S1's read of that row has been
\* answered with no row
C24_Witness ==
  /\ HasProfile("V2")
  /\ response.op = "select" /\ response.user = "S1" /\ response.target = "V2"
  /\ response.rows = {}

\* the role a gated path asks for, and the page behind it
GatedRole(path) ==
  CASE path = "/donate" -> "donor" [] path = "/requests" -> "shelter"
    [] path = "/pickups" -> "volunteer"

GatedPage(path) ==
  CASE path = "/donate" -> "DonateSurplus" [] path = "/requests" -> "IncomingRequests"
    [] path = "/pickups" -> "MyPickups"

GatedPaths == {"/donate", "/requests", "/pickups"}

RoleMatches ==
  ~auth.loading /\ auth.user # Null /\ auth.profile.user_type = GatedRole(location)

\* C29 as stated: at a role-gated path the page is rendered only when
\* loading is false, user is non-null and profile.user_type is the page's
\* role; in every other state the request is redirected, to /auth without a
\* user and to / otherwise.
C29_PageOrRedirect ==
  location \in GatedPaths =>
    IF RoleMatches THEN AppContent = GatedPage(location)
    ELSE IF auth.user = Null THEN AppContent = "Navigate to /auth"
    ELSE AppContent = "Navigate to /"

\* C29: at a role-gated path the page (with its Accept or Complete action)
\* is rendered exactly when loading is false, user is non-null and
\* profile.user_type is the page's role.  Otherwise: while loading the loading
\* screen is shown; without a user the Auth page; with a user and no profile
\* ProfileSetup; on a role mismatch the request is redirected to /.
C29_PageOnlyForRole ==
  location \in GatedPaths =>
    /\ AppContent = GatedPage(location) <=> RoleMatches
    /\ ~RoleMatches =>
         AppContent = IF auth.loading THEN "Loading application"
                      ELSE IF auth.user = Null THEN "Auth"
                      ELSE IF auth.profile = NoProfile THEN "ProfileSetup"
                      ELSE "Navigate to /"

\* a shelter's profile is shown IncomingRequests at /requests
C29_Witness ==
  /\ location = "/requests"
  /\ auth.profile.user_type = "shelter"
  /\ AppContent = "IncomingRequests"

C27_FetchKeepsSignUpProfile ==
  [][\A c \in calls :
       (/\ FetchProfileResolved(c)
        /\ c.result = "null"
        /\ auth.user = c.userId
        /\ HasProfile(c.userId) /\ auth.profile = profiles[c.userId])
       => auth'.profile # NoProfile]_vars

\* C28: in every reachable state of the AuthProvider profile is non-null
\* only if user is non-null and profile.id equals user.id.
C28_ProfileBelongsToUser ==
  auth.profile # NoProfile => (auth.user # Null /\ auth.profile.id = auth.user)

\* C30: fetchProfile always terminates after at most 3 attempts (the first
\* plus maxRetries): an attempt after the first starts only from the wait
\* that follows a profile-fetch timeout, never after a database error or
\* another exception; when the last attempt has ended the profile is the
\* fetched row or null; and every call ends.
C30_FetchTerminates ==
  /\ [](\A c \in FetchCalls :
          /\ c.retryCount <= maxRetries
          /\ c.phase = "waiting" => c.result = "Profile fetch timeout")
  /\ [][/\ \A n \in FetchCalls' \ FetchCalls :
             n.phase = "sent" =>
               \E c \in FetchCalls \ FetchCalls' :
                 c.phase = "waiting" /\ n.retryCount = c.retryCount + 1
        /\ (FetchCalls # {} /\ FetchCalls' = {}) =>
             auth'.profile \in {NoProfile} \cup {c.data : c \in FetchCalls}]_vars
  /\ (FetchCalls # {}) ~> (FetchCalls = {})

\* the third attempt, started after two timeouts, has been answered with the
\* user's row
C30_Witness ==
  \E c \in FetchCalls :
    c.retryCount = maxRetries /\ c.phase = "answered" /\ c.result = "data"

\* C31: signOut never rejects, and when it resolves user is null, profile is
\* null and loading is false, whether the backend sign-out succeeds, returns
\* an error or throws.
C31_SignOutEndsClean ==
  [][\A c \in calls : \A o \in {"ok", "error", "throws"} :
       SignOutAnswered(c, o) =>
         /\ response'.op = "signOut" /\ ~response'.error
         /\ auth' = [user |-> Null, profile |-> NoProfile, loading |-> FALSE]]_vars

\* C32: after any call of signIn loading eventually becomes false: at once
\* when the credentials are rejected, the error going to the caller, and on
\* success when a profile fetch started by the auth-state event ends; the
\* application never stays on the loading screen forever.
C32_SignInStopsLoading ==
  /\ [][\A c \in calls :
          /\ (\E ok \in BOOLEAN : SignInAnswered(c, ok)) =>
               IF response'.error THEN ~auth'.loading
               ELSE /\ auth'.user = c.userId
                    /\ Call("fetchProfile", c.userId, 0, "sent", "none", NoProfile) \in calls'
          /\ (\/ FetchProfileResolved(c)
              \/ \E m \in {"Profile fetch timeout", "Failed to fetch"} :
                   FetchProfileThrows(c, m) /\ ~ShouldRetry(m, c.retryCount))
               => ~auth'.loading]_vars
  /\ (\E c \in calls : c.op = "signIn") ~> ~auth.loading
  /\ auth.loading ~> ~auth.loading

\* S1 has signed in, the fetch of the event has ended and the profile is shown
C32_Witness ==
  /\ response = Fulfilled("signIn", "S1")
  /\ auth = [user |-> "S1", profile |-> profiles["S1"], loading |-> FALSE]
  /\ calls = {}

\* C33: on IncomingRequests and MyPickups, when several list fetches are in
\* flight, the list displayed is the result of the most recently started
\* fetch: the answer to an older fetch that arrives after the answer to a
\* newer one never replaces the list the newer one has set.
C33_OlderFetchNeverOverwrites ==
  [][\A u \in ListPages : \A i \in 1..Len(lists[u].fetches) :
       (FetchReturns(u, i) /\ lists[u].fetches[i].overtaken)
         => lists'[u].donations = lists[u].donations]_vars

C35_NoUserNoWrite ==
  [][auth.user = Null =>
       /\ \A in \in SetupInputs :
            createMissingProfile(in.name, in.userType) =>
              /\ response' = Rejected("createMissingProfile", Null, "No user logged in")
              /\ calls' = calls /\ profiles' = profiles /\ auth' = auth
       /\ \A updates \in SetupUpdates :
            updateProfileCalled(updates) =>
              /\ response' = Rejected("updateProfile", Null, "No user logged in")
              /\ calls' = calls /\ profiles' = profiles /\ auth' = auth]_vars

\* updateProfile has been called without a user and has been rejected
C35_Witness ==
  /\ auth.user = Null
  /\ calls = {}
  /\ response = Rejected("updateProfile", Null, "No user logged in")

\* C36: classifyFoodType is idempotent and keeps a chosen category: the
\* category it gives is classified as itself, and 'AI Classify' pressed on
\* one of the nine categories of the select leaves the food type as it is.
C36_ClassifyKeepsCategory ==
  [][classifyFood =>
       /\ classifyFoodType(formData'.food_type) = formData'.food_type
       /\ (\E i \in 1..Len(foodTypeOptions) : foodTypeOptions[i] = formData.food_type)
            => formData'.food_type = formData.food_type]_vars

====
